---- MODULE Spec2Model ----
(***************************************************************************)
(* Gateway selector: the selector hot path (select_gateway and its         *)
(* helpers) and the rule-set compiler (compile_ruleset), modelled from     *)
(* gateway_selector_v2/selector.py and                                     *)
(* gateway_selector_v2/compiler/ruleset_compiler.py.                       *)
(*                                                                         *)
(* Gateway names are modelled by the integers 1..NumGateways; the integer  *)
(* order stands for the order Python's sorted() gives the name strings.    *)
(***************************************************************************)
EXTENDS Integers, Sequences, FiniteSets, TLC

VARIABLES
    snapshot,        \* the CompiledRuleset handed to select_gateway
    ctx,             \* the request context (a dict: field -> value)
    allow_fallback,  \* keyword argument of select_gateway
    pc,              \* position of the call: "scan" (in or after the loop) or "done"
    idx,             \* index of the rule the for-loop is at (1-based)
    result,          \* what the call returned: [gw, decision]
    evaluated,       \* indexes of the rules whose predicate was called in this call
    sha,             \* SHA-256 as a fixed function: the inputs hashed so far -> bucket
    ncall,           \* number of the current call on these inputs (1 or 2)
    first,           \* the result of the first call, kept for comparison
    on_decision,     \* keyword argument on_decision of select_gateway: None or a callback
    calls,           \* the (Decision, ctx) pairs on_decision was invoked with in this call
    repo,            \* what the repository holds: rule sets, gateways, rules
    arg_ruleset_id,  \* keyword argument ruleset_id of compile_ruleset (None: the active one)
    arg_debug,       \* keyword argument debug of compile_ruleset
    cpc,             \* position of the compile_ruleset call
    rs,              \* local rs: the rule set fetched
    gws,             \* local gateways: the gateway map fetched
    rules_raw,       \* local rules_raw: the rules fetched
    ri,              \* index of the rule the compile loop is at (1-based)
    compiled_rules,  \* local compiled_rules
    outcome,         \* what compile_ruleset returned or raised
    held,            \* the snapshot an earlier compile_ruleset call returned, kept by the caller
    fpc,             \* position of a call of one of the helper functions
    call,            \* the arguments of that call
    ret,             \* what that call returned or raised
    clock,           \* the wall clock datetime.now reads, as a UTC weekday and hour
    cache,           \* what Redis holds: cache key -> the string stored under it
    cached           \* per cache key, the values that have been stored under it so far

selectorVars ==
    <<snapshot, ctx, allow_fallback, pc, idx, result, evaluated, sha, ncall, first,
      on_decision, calls>>

compileVars ==
    <<repo, arg_ruleset_id, arg_debug, cpc, rs, gws, rules_raw, ri, compiled_rules, outcome, held>>

callVars == <<fpc, call, ret, clock>>

cacheVars == <<cache, cached>>

nonSelectorVars == <<compileVars, callVars, cacheVars>>
nonCompileVars == <<selectorVars, callVars, cacheVars>>
nonCallVars == <<selectorVars, compileVars, cacheVars>>

vars == <<selectorVars, compileVars, callVars, cacheVars>>

\* no helper function is being called
NoCall == [f |-> "none"]
Midnight == [dow |-> 0, tod |-> 0]
CallIdle == fpc = "idle" /\ call = NoCall /\ ret = NoCall /\ clock = Midnight

---------------------------------------------------------------------------
(* Bounds of the model *)

MaxRules == 2
NumGateways == 2
\* predicate trees: nesting depth of the composites and children per composite
MaxDepth == 2
MaxChildren == 2
\* rule sets the store may come to hold
MaxRuleSets == 2
\* entries of a weights dict handed to _normalize_weights
MaxWeights == 3

---------------------------------------------------------------------------
(* Values *)

\* Python's None, for optional integers (rule ids and gateway names are >= 1)
None == 0
\* Python's None, for optional strings
NoneStr == "None"

\* the cache keys DatabaseRepoWithCache uses
CacheKey(name, id) == [name |-> name, id |-> id]

CacheKeys ==
    {CacheKey("active_ruleset", 0), CacheKey("gateways_map", 0)}
    \cup {CacheKey("rules_for_ruleset", id) : id \in 1..MaxRuleSets}

\* Redis holds nothing and nothing has been stored yet
CacheIdle == cache = [k \in {} |-> 0] /\ cached = [k \in CacheKeys |-> {}]

GwNames == 1..NumGateways
Buckets == 0..99

EmptyMap == [k \in {} |-> 0]

\* context values carry their Python type
NoneVal == [t |-> "none", v |-> 0]
IntVal(n) == [t |-> "int", v |-> n]
StrVal(s) == [t |-> "str", v |-> s]

\* a list and a dict, as a context may hold them: [7] and {}
ListVal == [t |-> "list", v |-> 0]
MapVal == [t |-> "dict", v |-> 0]
\* a datetime: weekday 0..6 (Monday 0), hour 0..23, and its UTC offset in hours
\* when it carries a tzinfo
DateTime(dow, tod, aware, off) ==
    [t |-> "datetime", v |-> [dow |-> dow, tod |-> tod, aware |-> aware, off |-> off]]

Digits == <<"0", "1", "2", "3", "4", "5", "6", "7", "8", "9">>

\* str(v) of a context value
Str(val) ==
    CASE val.t = "int" -> Digits[val.v + 1]
      [] val.t = "str" -> val.v
      [] val.t = "list" -> "[7]"
      [] val.t = "dict" -> "{}"
      [] val.t = "datetime" -> "2024-01-01 00:00:00"
      [] OTHER -> "None"

\* hash(v) raises TypeError for a list and a dict
Hashable(val) == val.t \notin {"list", "dict"}

\* int(v): [ok, v]; int("7") = 7, int("x") raises
ParseInt(val) ==
    CASE val.t = "int" -> [ok |-> TRUE, v |-> val.v]
      [] val.t = "str" ->
            IF \E d \in 1..Len(Digits) : Digits[d] = val.v
            THEN [ok |-> TRUE, v |-> (CHOOSE d \in 1..Len(Digits) : Digits[d] = val.v) - 1]
            ELSE [ok |-> FALSE, v |-> 0]
      [] OTHER -> [ok |-> FALSE, v |-> 0]

\* _get_field for a one-segment path: ctx[field] or None
_get_field(c, field) == IF field \in DOMAIN c THEN c[field] ELSE NoneVal

---------------------------------------------------------------------------
(* Matchers (compiled predicates) *)

CONST_TRUE == [name |-> "CONST_TRUE"]
CONST_FALSE == [name |-> "CONST_FALSE"]
All(children) == [name |-> "ALL", children |-> children]
\* class Any (the name Any is taken by the TLC module)
AnyOf(children) == [name |-> "ANY", children |-> children]
NoneOf(child) == [name |-> "NONE", child |-> child]
ValueIn(field, values, coerce) ==
    [name |-> "VALUE_IN", field |-> field, values |-> values, coerce |-> coerce]
\* DebugWrap: the name property is "DBG(<inner name>)"; path is the list of the
\* segments joined by "." in the source
DebugWrap(inner, path) ==
    [name |-> "DBG(" \o inner.name \o ")", inner |-> inner, path |-> path]

IsDebugWrap(m) == "inner" \in DOMAIN m

\* str.upper() and str.lower() on the strings the model uses
UpperTable ==
    ("user" :> "USER") @@ ("advanced" :> "ADVANCED") @@ ("pix_key_type" :> "PIX_KEY_TYPE")
    @@ ("email" :> "EMAIL")
Upper(s) == IF s \in DOMAIN UpperTable THEN UpperTable[s] ELSE s
Lower(s) ==
    IF s = "NaN" THEN "nan"
    ELSE IF \E l \in DOMAIN UpperTable : UpperTable[l] = s
    THEN CHOOSE l \in DOMAIN UpperTable : UpperTable[l] = s
    ELSE s

\* the outcome of a call that returns a value or raises
Ok(v) == [ok |-> TRUE, v |-> v, error |-> NoneStr]
Raise(e) == [ok |-> FALSE, v |-> NoneVal, error |-> e]

\* ValueIn.__call__; "v in self.values" hashes v
ValueInCall(m, c) ==
    LET v == _get_field(c, m.field) IN
    IF v = NoneVal THEN Ok(FALSE)
    ELSE IF m.coerce = "int"
         THEN LET p == ParseInt(v) IN Ok(p.ok /\ IntVal(p.v) \in m.values)
    ELSE IF m.coerce = "str"
         THEN Ok(StrVal(Str(v)) \in m.values)
    ELSE IF m.coerce = "lower-str"
         THEN Ok(StrVal(Lower(Str(v))) \in m.values)
    ELSE IF ~Hashable(v) THEN Raise("TypeError")
    ELSE Ok(v \in m.values)

\* len(s) of the strings str() gives in the model
StrLen(s) ==
    CASE s \in {"7", "x"} -> 1
      [] s = "{}" -> 2
      [] s \in {"NaN", "nan", "[7]"} -> 3
      [] s = "None" -> 4
      [] OTHER -> 19

RegexMatcher(field, pattern, mode, coerce, max_len) ==
    [name |-> "REGEX", field |-> field, pattern |-> pattern, mode |-> mode,
     coerce |-> coerce, max_len |-> max_len]

\* compiled.search / match / fullmatch for the pattern "7", the one pattern of
\* the model: among the model's strings "7" and "[7]" contain a 7, and "7"
\* alone starts with it
Found(pattern, mode, s) ==
    IF pattern # "7" THEN FALSE
    ELSE IF mode \in {"match", "fullmatch"} THEN s = "7"
    ELSE s \in {"7", "[7]"}

\* RegexMatcher.__call__ with engine_timeout_ms = None
RegexCall(m, c) ==
    LET v == _get_field(c, m.field) IN
    IF v = NoneVal THEN Ok(FALSE)
    ELSE IF m.coerce \notin {"str", "lower-str"} /\ v.t # "str" THEN Ok(FALSE)
    ELSE LET s == IF m.coerce = "str" THEN Str(v)
                  ELSE IF m.coerce = "lower-str" THEN Lower(Str(v))
                  ELSE v.v
         IN  IF m.max_len # None /\ StrLen(s) > m.max_len THEN Ok(FALSE)
             ELSE Ok(Found(m.pattern, m.mode, s))

\* a Decimal, counted in hundredths, and the Decimal NaN
Decimal(hundredths) == [t |-> "Decimal", v |-> hundredths]
NaN == [t |-> "NaN", v |-> 0]

Pow10(k) == IF k = 0 THEN 1 ELSE IF k = 1 THEN 10 ELSE 100

\* _to_decimal: Decimal(str(val)), None when val is None or no number
_to_decimal(val) ==
    IF val = NoneVal THEN NoneVal
    ELSE LET s == Str(val) IN
         IF ParseInt(StrVal(s)).ok THEN Decimal(100 * ParseInt(StrVal(s)).v)
         ELSE IF s = "NaN" THEN NaN
         ELSE NoneVal

AmountRange(field, coerce, scale, min_v, max_v, min_inclusive, max_inclusive) ==
    [name |-> "AMOUNT_RANGE", field |-> field, coerce |-> coerce, scale |-> scale,
     min_v |-> min_v, max_v |-> max_v, min_inclusive |-> min_inclusive,
     max_inclusive |-> max_inclusive]

\* the comparisons of AmountRange.__call__ for a number amt
InRange(m, amt) ==
    /\ m.min_v # NoneVal => IF m.min_inclusive THEN amt.v >= m.min_v.v ELSE amt.v > m.min_v.v
    /\ m.max_v # NoneVal => IF m.max_inclusive THEN amt.v <= m.max_v.v ELSE amt.v < m.max_v.v

\* AmountRange.__call__; an ordering comparison with the Decimal NaN raises
\* InvalidOperation
AmountRangeCall(m, c) ==
    LET raw == _get_field(c, m.field)
        iv == ParseInt(raw)
        amt == IF m.coerce = "int"
               THEN Decimal((100 * iv.v) \div Pow10(m.scale))
               ELSE _to_decimal(raw)
    IN  IF raw = NoneVal THEN Ok(FALSE)
        ELSE IF m.coerce = "int" /\ ~iv.ok THEN Ok(FALSE)
        ELSE IF amt = NoneVal THEN Ok(FALSE)
        ELSE IF amt = NaN
             THEN IF m.min_v # NoneVal \/ m.max_v # NoneVal THEN Raise("InvalidOperation")
                  ELSE Ok(TRUE)
        ELSE Ok(InRange(m, amt))

\* Optional[FrozenSet[int]]
NoDays == [none |-> TRUE, days |-> {}]
Days(S) == [none |-> FALSE, days |-> S]

\* tz is the zone's UTC offset in hours, start and end are hours
TimeWindow(tz, start, end, days_of_week) ==
    [name |-> "TIME_WINDOW", tz |-> tz, start |-> start, end |-> end,
     days_of_week |-> days_of_week]

\* a weekday and hour moved by h hours
Shift(t, h) ==
    [dow |-> (t.dow + ((t.tod + h) \div 24)) % 7, tod |-> (t.tod + h) % 24]

\* TimeWindow.__call__: now is ctx.get("now") or the clock; now.tzinfo is
\* read of whatever ctx holds under "now"
TimeWindowCall(m, c) ==
    LET now == IF "now" \in DOMAIN c THEN c.now ELSE NoneVal IN
    IF now # NoneVal /\ now.t # "datetime" THEN Raise("AttributeError")
    ELSE LET local == IF now = NoneVal THEN Shift(clock, m.tz)
                      ELSE IF ~now.v.aware THEN [dow |-> now.v.dow, tod |-> now.v.tod]
                      ELSE Shift([dow |-> now.v.dow, tod |-> now.v.tod], m.tz - now.v.off)
         IN  IF ~m.days_of_week.none /\ local.dow \notin m.days_of_week.days THEN Ok(FALSE)
             ELSE IF m.start <= m.end
             THEN Ok(m.start <= local.tod /\ local.tod <= m.end)
             ELSE Ok(local.tod >= m.start \/ local.tod <= m.end)

\* str(m) is a string: the leaf matchers define __str__; All, Any, NoneOf,
\* ConstTrue, ConstFalse and DebugWrap define none and inherit Matcher.__str__,
\* whose body is "..." and which returns None, so that str(m) raises TypeError
LeafNames == {"VALUE_IN", "REGEX", "AMOUNT_RANGE", "TIME_WINDOW"}
__str__(m) ==
    IF ~IsDebugWrap(m) /\ m.name \in LeafNames THEN Ok(m.name) ELSE Raise("TypeError")

RECURSIVE __call__(_, _)
RECURSIVE AllCall(_, _, _)
RECURSIVE AnyCall(_, _, _)

\* All.__call__ from child i on: the first false child returns False, an
\* exception of a child propagates
AllCall(children, c, i) ==
    IF i > Len(children) THEN Ok(TRUE)
    ELSE LET r == __call__(children[i], c) IN
         IF ~r.ok THEN r
         ELSE IF ~r.v THEN Ok(FALSE)
         ELSE AllCall(children, c, i + 1)

\* Any.__call__ from child i on: the first true child returns True
AnyCall(children, c, i) ==
    IF i > Len(children) THEN Ok(FALSE)
    ELSE LET r == __call__(children[i], c) IN
         IF ~r.ok THEN r
         ELSE IF r.v THEN Ok(TRUE)
         ELSE AnyCall(children, c, i + 1)

\* NoneOf.__call__
NoneOfCall(m, c) ==
    LET r == __call__(m.child, c) IN IF r.ok THEN Ok(~r.v) ELSE r

\* DebugWrap.__call__: the inner matcher is called, then the log line is
\* formatted with {self.inner} on both branches (log given or not), then the
\* inner result is returned
DebugWrapCall(m, c) ==
    LET res == __call__(m.inner, c) IN
    IF ~res.ok THEN res
    ELSE IF ~__str__(m.inner).ok THEN Raise(__str__(m.inner).error)
    ELSE res

\* m(ctx) for a matcher m of any class
__call__(m, c) ==
    IF IsDebugWrap(m) THEN DebugWrapCall(m, c)
    ELSE CASE m.name = "CONST_TRUE" -> Ok(TRUE)
           [] m.name = "CONST_FALSE" -> Ok(FALSE)
           [] m.name = "VALUE_IN" -> ValueInCall(m, c)
           [] m.name = "REGEX" -> RegexCall(m, c)
           [] m.name = "AMOUNT_RANGE" -> AmountRangeCall(m, c)
           [] m.name = "TIME_WINDOW" -> TimeWindowCall(m, c)
           [] m.name = "ALL" -> AllCall(m.children, c, 1)
           [] m.name = "ANY" -> AnyCall(m.children, c, 1)
           [] m.name = "NONE" -> NoneOfCall(m, c)

\* rule.predicate(ctx) returns a true value
Call(m, c) == LET r == __call__(m, c) IN r.ok /\ r.v

\* rule.predicate(ctx) returns a false value
Rejects(m, c) == LET r == __call__(m, c) IN r.ok /\ ~r.v

---------------------------------------------------------------------------
(* Gateways and actions *)

GatewayConfig(n, en, mt) == [name |-> n, is_enabled |-> en, in_maintenance |-> mt]

\* the value of gateways.get(name) when the name is no key: None
NoGateway == [name |-> None, is_enabled |-> FALSE, in_maintenance |-> FALSE]

GatewaysGet(gateways, n) == IF n \in DOMAIN gateways THEN gateways[n] ELSE NoGateway

\* mutant: a gateway in maintenance counts as available
_gw_ok_IgnoresMaintenance(gw) == gw.is_enabled

_gw_ok(gw) == gw.is_enabled /\ ~gw.in_maintenance

\* action dicts; a key the dict does not hold reads as None through action.get
Action(route, gateway, weights, sticky_by) ==
    [route |-> route, gateway |-> gateway, weights |-> weights, sticky_by |-> sticky_by,
     reason_code |-> NoneVal]
Deny == Action("DENY", None, EmptyMap, NoneStr)
Fixed(g) == Action("FIXED", g, EmptyMap, NoneStr)
Weighted(w, sticky) == Action("WEIGHTED", None, w, sticky)
UnknownRoute == Action("SPLIT", None, EmptyMap, NoneStr)

---------------------------------------------------------------------------
(* _normalize_weights *)

Max0(v) == IF v > 0 THEN v ELSE 0

RECURSIVE SumOver(_, _)
SumOver(f, S) ==
    IF S = {} THEN 0
    ELSE LET k == CHOOSE x \in S : TRUE IN f[k] + SumOver(f, S \ {k})

SumMap(f) == SumOver(f, DOMAIN f)

\* sorted(keys): ascending name order
RECURSIVE SortedKeys(_)
SortedKeys(S) ==
    IF S = {} THEN <<>>
    ELSE LET k == CHOOSE x \in S : \A y \in S : x <= y IN <<k>> \o SortedKeys(S \ {k})

\* int(round(num / den)) for num >= 0, den > 0: Python rounds halves to even
PyRound(num, den) ==
    LET q == num \div den
        r == num % den
    IN  IF 2 * r < den THEN q
        ELSE IF 2 * r > den THEN q + 1
        ELSE IF q % 2 = 0 THEN q ELSE q + 1

\* the loop of lines 43-49 over items[i..]: acc is the sum of the percentages so far
RECURSIVE NormalizeLoop(_, _, _, _, _)
NormalizeLoop(items, cleaned, total, i, acc) ==
    IF i > Len(items) THEN EmptyMap
    ELSE IF i = Len(items)
         THEN (items[i] :> (100 - acc))
         ELSE LET pct == PyRound(cleaned[items[i]] * 100, total)
              IN  (items[i] :> pct) @@ NormalizeLoop(items, cleaned, total, i + 1, acc + pct)

\* line 32 converts each value with int(v); the weights of a compiled rule passed
\* the same conversion in _validate_action
_normalize_weights(weights) ==
    LET clamped == [k \in DOMAIN weights |-> Max0(ParseInt(weights[k]).v)]
        cleaned == [k \in {x \in DOMAIN clamped : clamped[x] > 0} |-> clamped[k]]
        total == SumMap(cleaned)
    IN  IF total = 0 THEN EmptyMap
        ELSE IF total = 100 THEN cleaned
        ELSE LET items == SortedKeys(DOMAIN cleaned)
                 out == NormalizeLoop(items, cleaned, total, 1, 0)
                 diff == 100 - SumMap(out)
                 last == items[Len(items)]
             IN  IF diff # 0 THEN [out EXCEPT ![last] = @ + diff] ELSE out

---------------------------------------------------------------------------
(* _pick_weighted *)

\* mutant: known gateways are kept whether available or not
Candidates_Unfiltered(weights, gateways) ==
    [k \in {x \in DOMAIN weights : x \in DOMAIN gateways} |-> weights[k]]

\* line 72: the weights of the gateways that are known and available
Candidates(weights, gateways) ==
    [k \in {x \in DOMAIN weights : x \in DOMAIN gateways /\ _gw_ok(gateways[x])} |-> weights[k]]

\* mutant: the comparison with the bucket is not strict
RECURSIVE Walk_Inclusive(_, _, _, _, _)
Walk_Inclusive(names, norm, bucket, i, cumulative) ==
    IF i > Len(names) THEN names[Len(names)]
    ELSE IF bucket <= cumulative + norm[names[i]] THEN names[i]
    ELSE Walk_Inclusive(names, norm, bucket, i + 1, cumulative + norm[names[i]])

\* lines 89-97: the walk over the normalized weights, from position i
RECURSIVE Walk(_, _, _, _, _)
Walk(names, norm, bucket, i, cumulative) ==
    IF i > Len(names) THEN names[Len(names)]
    ELSE IF bucket < cumulative + norm[names[i]] THEN names[i]
    ELSE Walk(names, norm, bucket, i + 1, cumulative + norm[names[i]])

\* whether _pick_weighted gets as far as computing a bucket (lines 73-77)
ReachesBucket(weights, gateways) ==
    _normalize_weights(Candidates(weights, gateways)) # EmptyMap

\* _pick_weighted, given the bucket its key hashes to: the gateway or None
_pick_weighted(weights, gateways, bucket) ==
    LET candidates == Candidates(weights, gateways)
        norm == _normalize_weights(candidates)
    IN  IF candidates = EmptyMap THEN NoGateway
        ELSE IF norm = EmptyMap THEN NoGateway
        ELSE gateways[Walk(SortedKeys(DOMAIN norm), norm, bucket, 1, 0)]

\* mutant: sticky_by is not honoured, every request gets a fresh uuid4
StickyKey_AlwaysUuid(sticky_by, c) == [uuid |-> TRUE, key |-> ""]

\* lines 80-85: the sticky key, or "uuid" for a fresh uuid4 per request
StickyKey(sticky_by, c) ==
    IF sticky_by # NoneStr
    THEN LET key_val == _get_field(c, sticky_by)
         IN  IF key_val # NoneVal THEN [uuid |-> FALSE, key |-> Str(key_val)]
             ELSE [uuid |-> TRUE, key |-> ""]
    ELSE [uuid |-> TRUE, key |-> ""]

\* line 115
Seed(snap, rule) ==
    <<snap.ruleset_id, snap.version,
      IF snap.sticky_salt = NoneStr THEN "" ELSE snap.sticky_salt, rule.id>>

---------------------------------------------------------------------------
(* resolve_action *)

resolve_action(rule, snap, bucket) ==
    LET action == rule.action IN
    CASE action.route = "DENY" -> [gw |-> NoGateway, reason |-> "denied"]
      [] action.route = "FIXED" ->
            LET gw == GatewaysGet(snap.gateways, action.gateway)
            IN  IF gw # NoGateway /\ _gw_ok(gw)
                THEN [gw |-> gw, reason |-> "matched"]
                ELSE [gw |-> NoGateway, reason |-> "fixed_unavailable"]
      [] action.route = "WEIGHTED" ->
            LET gw == _pick_weighted(action.weights, snap.gateways, bucket)
            IN  IF gw # NoGateway
                THEN [gw |-> gw, reason |-> "matched"]
                ELSE [gw |-> NoGateway, reason |-> "weighted_unavailable"]
      [] OTHER -> [gw |-> NoGateway, reason |-> "unknown_route"]

Decision(id, route, gateway, reason) ==
    [matched_rule_id |-> id, route |-> route, gateway |-> gateway, reason |-> reason]

NoResult == [gw |-> NoGateway, decision |-> Decision(None, NoneStr, None, "none")]

---------------------------------------------------------------------------
(* select_gateway, one step per loop iteration *)

Rule(id, priority, enabled, predicate, action) ==
    [id |-> id, priority |-> priority, enabled |-> enabled,
     predicate |-> predicate, action |-> action]

CompiledRuleset(ruleset_id, version, sticky_salt, rules, gateways, default_gateway, loaded_at_ms) ==
    [ruleset_id |-> ruleset_id, version |-> version, sticky_salt |-> sticky_salt,
     rules |-> rules, gateways |-> gateways, default_gateway |-> default_gateway,
     loaded_at_ms |-> loaded_at_ms, total_rules |-> Len(rules)]

CurRule == snapshot.rules[idx]

InLoop == pc = "scan" /\ idx <= Len(snapshot.rules)

\* what SHA-256 is applied to on line 59: key + ":" + seed
HashInput(rule) == <<StickyKey(rule.action.sticky_by, ctx).key>> \o Seed(snapshot, rule)

\* whether resolving this rule's action computes a bucket at all
Hashes(rule) ==
    rule.action.route = "WEIGHTED" /\ ReachesBucket(rule.action.weights, snapshot.gateways)

\* the buckets _sticky_hash_bucket can return here: any for a fresh uuid4 or an
\* input not hashed before, the same as before for an input already hashed
BucketsFor(rule) ==
    IF ~Hashes(rule) THEN {0}
    ELSE IF StickyKey(rule.action.sticky_by, ctx).uuid THEN Buckets
    ELSE IF HashInput(rule) \in DOMAIN sha THEN {sha[HashInput(rule)]}
    ELSE Buckets

ShaAfter(rule, b) ==
    IF Hashes(rule) /\ ~StickyKey(rule.action.sticky_by, ctx).uuid
    THEN (HashInput(rule) :> b) @@ sha
    ELSE sha

\* mutant: the callback is never invoked
Notified_Never(cs, dec) == cs

\* lines 164, 168, 178, 189: "if on_decision: on_decision(dec, ctx)"; the
\* invocations so far, with this one when a callback was supplied
Notified(cs, dec) ==
    IF on_decision = NoneStr THEN cs ELSE Append(cs, [dec |-> dec, ctx |-> ctx])

\* lines 163-165, 167-169, 177-179, 188-190: the Decision is built, the
\* callback invoked, and (gw, dec) returned unless the callback raised
Return(gw, dec) ==
    /\ calls' = Notified(calls, dec)
    /\ IF on_decision = "raises"
       THEN pc' = "raised" /\ UNCHANGED result
       ELSE pc' = "done" /\ result' = [gw |-> gw, decision |-> dec]

\* lines 158-159: a disabled rule is skipped
SkipDisabled ==
    /\ InLoop
    /\ ~CurRule.enabled
    /\ idx' = idx + 1
    /\ UNCHANGED nonSelectorVars
    /\ UNCHANGED <<snapshot, ctx, allow_fallback, pc, result, evaluated, sha, ncall, first, on_decision, calls>>

\* line 160: the predicate rejects ctx
NoMatch ==
    /\ InLoop
    /\ CurRule.enabled
    /\ Rejects(CurRule.predicate, ctx)
    /\ evaluated' = evaluated \cup {idx}
    /\ idx' = idx + 1
    /\ UNCHANGED nonSelectorVars
    /\ UNCHANGED <<snapshot, ctx, allow_fallback, pc, result, sha, ncall, first, on_decision, calls>>

\* mutant: a DENY rule is passed over like a rule whose gateway is unavailable
RuleDenied_FallsThrough ==
    /\ InLoop
    /\ CurRule.enabled
    /\ Call(CurRule.predicate, ctx)
    /\ CurRule.action.route = "DENY"
    /\ evaluated' = evaluated \cup {idx}
    /\ idx' = idx + 1
    /\ UNCHANGED nonSelectorVars
    /\ UNCHANGED <<snapshot, ctx, allow_fallback, pc, result, sha, ncall, first, on_decision, calls>>

\* lines 161-165: the action is DENY
RuleDenied ==
    /\ InLoop
    /\ CurRule.enabled
    /\ Call(CurRule.predicate, ctx)
    /\ \E b \in BucketsFor(CurRule) :
          LET r == resolve_action(CurRule, snapshot, b) IN
          /\ r.reason = "denied"
          /\ Return(NoGateway, Decision(CurRule.id, "DENY", None, "denied"))
          /\ sha' = ShaAfter(CurRule, b)
    /\ evaluated' = evaluated \cup {idx}
    /\ UNCHANGED nonSelectorVars
    /\ UNCHANGED <<snapshot, ctx, allow_fallback, idx, ncall, first, on_decision>>

\* mutant: the enabled flag is not looked at before the predicate is called
RuleMatched_IgnoresEnabled ==
    /\ InLoop
    /\ Call(CurRule.predicate, ctx)
    /\ \E b \in BucketsFor(CurRule) :
          LET r == resolve_action(CurRule, snapshot, b) IN
          /\ r.reason # "denied"
          /\ r.gw # NoGateway
          /\ Return(r.gw, Decision(CurRule.id, CurRule.action.route, r.gw.name, r.reason))
          /\ sha' = ShaAfter(CurRule, b)
    /\ evaluated' = evaluated \cup {idx}
    /\ UNCHANGED nonSelectorVars
    /\ UNCHANGED <<snapshot, ctx, allow_fallback, idx, ncall, first, on_decision>>

\* mutant: the normalized weights of the available gateways are written back
\* into the action of the rule
RuleMatched_NormalizesInPlace ==
    /\ InLoop
    /\ CurRule.enabled
    /\ Call(CurRule.predicate, ctx)
    /\ \E b \in BucketsFor(CurRule) :
          LET r == resolve_action(CurRule, snapshot, b) IN
          /\ r.reason # "denied"
          /\ r.gw # NoGateway
          /\ Return(r.gw, Decision(CurRule.id, CurRule.action.route, r.gw.name, r.reason))
          /\ sha' = ShaAfter(CurRule, b)
    /\ evaluated' = evaluated \cup {idx}
    /\ snapshot' =
          IF CurRule.action.route # "WEIGHTED" THEN snapshot
          ELSE LET norm == _normalize_weights(Candidates(CurRule.action.weights, snapshot.gateways))
               IN  [snapshot EXCEPT !.rules[idx].action.weights = [k \in DOMAIN norm |-> IntVal(norm[k])]]
    /\ UNCHANGED nonSelectorVars
    /\ UNCHANGED <<ctx, allow_fallback, idx, ncall, first, on_decision>>

\* lines 161, 166-169: the action produced a gateway
RuleMatched ==
    /\ InLoop
    /\ CurRule.enabled
    /\ Call(CurRule.predicate, ctx)
    /\ \E b \in BucketsFor(CurRule) :
          LET r == resolve_action(CurRule, snapshot, b) IN
          /\ r.reason # "denied"
          /\ r.gw # NoGateway
          /\ Return(r.gw, Decision(CurRule.id, CurRule.action.route, r.gw.name, r.reason))
          /\ sha' = ShaAfter(CurRule, b)
    /\ evaluated' = evaluated \cup {idx}
    /\ UNCHANGED nonSelectorVars
    /\ UNCHANGED <<snapshot, ctx, allow_fallback, idx, ncall, first, on_decision>>

\* mutant: a rule whose action produced no gateway ends the call
RuleUnresolved_Returns ==
    /\ InLoop
    /\ CurRule.enabled
    /\ Call(CurRule.predicate, ctx)
    /\ \E b \in BucketsFor(CurRule) :
          LET r == resolve_action(CurRule, snapshot, b) IN
          /\ r.reason # "denied"
          /\ r.gw = NoGateway
          /\ Return(NoGateway, Decision(CurRule.id, CurRule.action.route, None, r.reason))
          /\ sha' = ShaAfter(CurRule, b)
    /\ evaluated' = evaluated \cup {idx}
    /\ UNCHANGED nonSelectorVars
    /\ UNCHANGED <<snapshot, ctx, allow_fallback, idx, ncall, first, on_decision>>

\* lines 161, 170-171: the action produced no gateway, on to the next rule
RuleUnresolved ==
    /\ InLoop
    /\ CurRule.enabled
    /\ Call(CurRule.predicate, ctx)
    /\ \E b \in BucketsFor(CurRule) :
          LET r == resolve_action(CurRule, snapshot, b) IN
          /\ r.reason # "denied"
          /\ r.gw = NoGateway
          /\ sha' = ShaAfter(CurRule, b)
    /\ evaluated' = evaluated \cup {idx}
    /\ idx' = idx + 1
    /\ UNCHANGED nonSelectorVars
    /\ UNCHANGED <<snapshot, ctx, allow_fallback, pc, result, ncall, first, on_decision, calls>>

\* the for-loop of line 157 is exhausted
LoopDone == pc = "scan" /\ idx > Len(snapshot.rules)

\* mutant: the default gateway is used only when the rule set has no enabled rule
FallbackUsable_OnlyWithoutRules(snap, af) ==
    /\ af
    /\ snap.default_gateway # None
    /\ ~\E i \in 1..Len(snap.rules) : snap.rules[i].enabled
    /\ LET gw == GatewaysGet(snap.gateways, snap.default_gateway)
       IN  gw # NoGateway /\ _gw_ok(gw)

\* mutant: allow_fallback is not looked at
FallbackUsable_IgnoresFlag(snap, af) ==
    /\ snap.default_gateway # None
    /\ LET gw == GatewaysGet(snap.gateways, snap.default_gateway)
       IN  gw # NoGateway /\ _gw_ok(gw)

\* the condition of lines 174-176
FallbackUsable(snap, af) ==
    /\ af
    /\ snap.default_gateway # None
    /\ LET gw == GatewaysGet(snap.gateways, snap.default_gateway)
       IN  gw # NoGateway /\ _gw_ok(gw)

\* lines 174-179
Fallback ==
    /\ LoopDone
    /\ FallbackUsable(snapshot, allow_fallback)
    /\ LET gw == GatewaysGet(snapshot.gateways, snapshot.default_gateway)
       IN  Return(gw, Decision(None, NoneStr, gw.name, "fallback"))
    /\ UNCHANGED nonSelectorVars
    /\ UNCHANGED <<snapshot, ctx, allow_fallback, idx, evaluated, sha, ncall, first, on_decision>>

\* mutant: any rule counts, enabled or not
NoGatewayReason_AnyRule(snap) ==
    IF Len(snap.rules) > 0 THEN "no_available_gw" ELSE "no_rule"

\* lines 183-186
NoGatewayReason(snap) ==
    IF \E i \in 1..Len(snap.rules) : snap.rules[i].enabled
    THEN "no_available_gw" ELSE "no_rule"

\* lines 181-190
ReturnNone ==
    /\ LoopDone
    /\ ~FallbackUsable(snapshot, allow_fallback)
    /\ Return(NoGateway, Decision(None, NoneStr, None, NoGatewayReason(snapshot)))
    /\ UNCHANGED nonSelectorVars
    /\ UNCHANGED <<snapshot, ctx, allow_fallback, idx, evaluated, sha, ncall, first, on_decision>>

\* the caller calls select_gateway again with the same ctx and snapshot
CallAgain ==
    /\ pc = "done"
    /\ ncall = 1
    /\ first' = result
    /\ result' = NoResult
    /\ ncall' = 2
    /\ pc' = "scan"
    /\ idx' = 1
    /\ evaluated' = {}
    /\ calls' = <<>>
    /\ UNCHANGED nonSelectorVars
    /\ UNCHANGED <<snapshot, ctx, allow_fallback, sha, on_decision>>

---------------------------------------------------------------------------
(* select_gateway as a function of its inputs and of the bucket the hash gives *)

\* lines 173-190: what is returned once the loop is exhausted
AfterLoop(snap, af) ==
    IF FallbackUsable(snap, af)
    THEN LET gw == GatewaysGet(snap.gateways, snap.default_gateway)
         IN  [gw |-> gw, decision |-> Decision(None, NoneStr, gw.name, "fallback")]
    ELSE [gw |-> NoGateway, decision |-> Decision(None, NoneStr, None, NoGatewayReason(snap))]

\* lines 157-171, from rule i on
RECURSIVE ScanFrom(_, _, _, _, _)
ScanFrom(c, snap, af, bucket, i) ==
    IF i > Len(snap.rules) THEN AfterLoop(snap, af)
    ELSE LET rule == snap.rules[i] IN
         IF ~rule.enabled THEN ScanFrom(c, snap, af, bucket, i + 1)
         ELSE IF ~Call(rule.predicate, c) THEN ScanFrom(c, snap, af, bucket, i + 1)
         ELSE LET r == resolve_action(rule, snap, bucket) IN
              IF r.reason = "denied"
              THEN [gw |-> NoGateway, decision |-> Decision(rule.id, "DENY", None, "denied")]
              ELSE IF r.gw # NoGateway
              THEN [gw |-> r.gw,
                    decision |-> Decision(rule.id, rule.action.route, r.gw.name, r.reason)]
              ELSE ScanFrom(c, snap, af, bucket, i + 1)

select_gateway(c, snap, af, bucket) == ScanFrom(c, snap, af, bucket, 1)

---------------------------------------------------------------------------

\* line 160: the predicate raises; select_gateway catches nothing, so the
\* exception leaves the call
PredicateRaises ==
    /\ InLoop
    /\ CurRule.enabled
    /\ ~__call__(CurRule.predicate, ctx).ok
    /\ evaluated' = evaluated \cup {idx}
    /\ pc' = "raised"
    /\ UNCHANGED nonSelectorVars
    /\ UNCHANGED <<snapshot, ctx, allow_fallback, idx, result, sha, ncall, first, on_decision, calls>>

Next ==
    \/ SkipDisabled
    \/ NoMatch
    \/ RuleDenied
    \/ RuleMatched
    \/ RuleUnresolved
    \/ Fallback
    \/ ReturnNone

---------------------------------------------------------------------------
(* Condition trees (JSON) and compile_predicate *)

\* A JSON object is a function from its keys; {} is EmptyMap.  A JSON list is
\* JList(items); NotAList stands for any value that is no list.
JList(items) == [islist |-> TRUE, items |-> items]
NotAList == [islist |-> FALSE, items |-> <<>>]

\* dict.get(k, default)
Get(d, k, default) == IF k \in DOMAIN d THEN d[k] ELSE default

\* the keys of MATCHER_FACTORIES once the matcher modules are imported
MATCHER_FACTORIES ==
    {<<"VALUE_IN", "v1">>, <<"REGEX", "v1">>, <<"AMOUNT_RANGE", "v1">>, <<"TIME_WINDOW", "v1">>}

\* to_coerced inside make_value_in
to_coerced(coerce, val) ==
    IF coerce = "int"
    THEN LET p == ParseInt(val) IN IF p.ok THEN Ok(IntVal(p.v)) ELSE Raise("ValueError")
    ELSE IF coerce = "str" THEN Ok(StrVal(Str(val)))
    ELSE IF coerce = "lower-str" THEN Ok(StrVal(Lower(Str(val))))
    ELSE Ok(val)

make_value_in(cond) ==
    LET field == Get(cond, "field", NoneStr)
        values == Get(cond, "values", JList(<<>>))
        coerce == Get(cond, "coerce", NoneStr)
    IN  IF field = NoneStr \/ ~values.islist THEN Raise("ValueError")
        ELSE IF coerce \notin {NoneStr, "int", "str", "lower-str"} THEN Raise("ValueError")
        ELSE LET co == [i \in 1..Len(values.items) |-> to_coerced(coerce, values.items[i])]
             IN  IF \E i \in 1..Len(co) : ~co[i].ok THEN Raise("ValueError")
                 ELSE Ok(ValueIn(field, {co[i].v : i \in 1..Len(co)}, coerce))

build_matcher(cond) ==
    LET t == cond.type
        impl == Get(cond, "impl", "v1")
    IN  IF <<t, impl>> \notin MATCHER_FACTORIES THEN Raise("KeyError")
        ELSE CASE t = "VALUE_IN" -> make_value_in(cond)

RECURSIVE _flatten(_, _)
_flatten(kind, children) ==
    IF children = <<>> THEN <<>>
    ELSE LET ch == Head(children) IN
         (IF kind = "all" /\ ch.name = "ALL" THEN ch.children
          ELSE IF kind = "any" /\ ch.name = "ANY" THEN ch.children
          ELSE <<ch>>) \o _flatten(kind, Tail(children))

_fold_constants_for_all(children) ==
    IF \E i \in 1..Len(children) : children[i] = CONST_FALSE THEN CONST_FALSE
    ELSE LET kept == SelectSeq(children, LAMBDA ch : ch # CONST_TRUE) IN
         IF kept = <<>> THEN CONST_TRUE
         ELSE IF Len(kept) = 1 THEN kept[1]
         ELSE All(kept)

\* mutant: an any left without children folds to CONST_TRUE
_fold_constants_for_any_EmptyTrue(children) ==
    IF \E i \in 1..Len(children) : children[i] = CONST_TRUE THEN CONST_TRUE
    ELSE LET kept == SelectSeq(children, LAMBDA ch : ch # CONST_FALSE) IN
         IF kept = <<>> THEN CONST_TRUE
         ELSE IF Len(kept) = 1 THEN kept[1]
         ELSE AnyOf(kept)

_fold_constants_for_any(children) ==
    IF \E i \in 1..Len(children) : children[i] = CONST_TRUE THEN CONST_TRUE
    ELSE LET kept == SelectSeq(children, LAMBDA ch : ch # CONST_FALSE) IN
         IF kept = <<>> THEN CONST_FALSE
         ELSE IF Len(kept) = 1 THEN kept[1]
         ELSE AnyOf(kept)

\* the first child that raised (the list comprehension stops there)
FirstRaise(cs) == cs[CHOOSE i \in 1..Len(cs) : ~cs[i].ok /\ \A j \in 1..(i - 1) : cs[j].ok]

RECURSIVE compile_predicate(_, _, _)
compile_predicate(tree, debug, path) ==
    LET keys == {k \in {"all", "any", "none"} : k \in DOMAIN tree}
        Wrap(node) == Ok(IF debug THEN DebugWrap(node, path) ELSE node)
        Children(key, tag) ==
            [i \in 1..Len(tree[key].items) |->
                compile_predicate(tree[key].items[i], debug, path \o <<tag, i - 1>>)]
        Matchers(cs) == [i \in 1..Len(cs) |-> cs[i].v]
    IN  IF tree = EmptyMap THEN Raise("ValueError")
        ELSE IF Cardinality(keys) > 1 THEN Raise("ValueError")
        ELSE IF "all" \in DOMAIN tree
        THEN IF ~tree.all.islist THEN Raise("ValueError")
             ELSE LET cs == Children("all", "ALL") IN
                  IF \E i \in 1..Len(cs) : ~cs[i].ok THEN FirstRaise(cs)
                  ELSE Wrap(_fold_constants_for_all(_flatten("all", Matchers(cs))))
        ELSE IF "any" \in DOMAIN tree
        THEN IF ~tree.any.islist THEN Raise("ValueError")
             ELSE LET cs == Children("any", "ANY") IN
                  IF \E i \in 1..Len(cs) : ~cs[i].ok THEN FirstRaise(cs)
                  ELSE Wrap(_fold_constants_for_any(_flatten("any", Matchers(cs))))
        ELSE IF "none" \in DOMAIN tree
        THEN IF ~tree.none.islist THEN Raise("ValueError")
             ELSE IF tree.none.items = <<>> THEN Wrap(CONST_TRUE)
             ELSE LET any_node == compile_predicate([any |-> tree.none], debug,
                                                    path \o <<"NONE", "ANY">>)
                  IN  IF ~any_node.ok THEN any_node
                      ELSE IF any_node.v = CONST_TRUE THEN Wrap(CONST_FALSE)
                      ELSE IF any_node.v = CONST_FALSE THEN Wrap(CONST_TRUE)
                      ELSE Wrap(NoneOf(any_node.v))
        ELSE IF "type" \notin DOMAIN tree THEN Raise("ValueError")
        ELSE LET node == build_matcher(tree) IN
             IF ~node.ok THEN node ELSE Wrap(node.v)

---------------------------------------------------------------------------
(* The rule-set compiler *)

ALLOWED_PIX_TYPES ==
    {"QRCODE", "QRCODE_STATIC", "QRCODE_DYNAMIC", "EMAIL", "PHONE", "EVP", "CPF", "CNPJ"}

\* a JSON list of one value
ListOf(val) == JList(<<val>>)

_filter_to_condition_json(filter_type, filter_value) ==
    LET ft == Upper(filter_type) IN
    IF ft = "USER"
    THEN LET uid == ParseInt(StrVal(filter_value)) IN
         IF ~uid.ok THEN Raise("ValueError")
         ELSE Ok([type |-> "VALUE_IN", field |-> "api_user_id",
                  values |-> ListOf(IntVal(uid.v)), coerce |-> "int"])
    ELSE IF ft = "PIX_KEY"
    THEN Ok([type |-> "VALUE_IN", field |-> "pix_key",
             values |-> ListOf(StrVal(filter_value)), coerce |-> "str"])
    ELSE IF ft = "PIX_KEY_TYPE"
    THEN LET t == Upper(filter_value) IN
         IF t \notin ALLOWED_PIX_TYPES THEN Raise("ValueError")
         ELSE Ok([type |-> "VALUE_IN", field |-> "pix_key_type", values |-> ListOf(StrVal(t))])
    ELSE IF ft = "ADVANCED" THEN Raise("AssertionError")
    ELSE Raise("ValueError")

\* mutant: the names an action refers to are not looked up in the gateway map
_validate_action_NamesUnchecked(action, gateways_configs) ==
    LET route == action.route IN
    IF route \notin {"FIXED", "WEIGHTED", "DENY"} THEN Raise("ValueError")
    ELSE IF route = "FIXED"
    THEN IF action.gateway = None THEN Raise("ValueError") ELSE Ok(NoneVal)
    ELSE IF route = "WEIGHTED"
    THEN LET weights == action.weights IN
         IF weights = EmptyMap THEN Raise("ValueError")
         ELSE IF \E name \in DOMAIN weights : ~ParseInt(weights[name]).ok
         THEN Raise("ValueError")
         ELSE IF \E name \in DOMAIN weights : ParseInt(weights[name]).v < 0
         THEN Raise("ValueError")
         ELSE IF ~\E name \in DOMAIN weights : ParseInt(weights[name]).v > 0
         THEN Raise("ValueError")
         ELSE Ok(NoneVal)
    ELSE IF action.reason_code.t \notin {"none", "str"} THEN Raise("ValueError")
    ELSE Ok(NoneVal)

\* mutant: a WEIGHTED action whose weights are all zero passes
_validate_action_ZeroAccepted(action, gateways_configs) ==
    LET route == action.route
        gateways == DOMAIN gateways_configs
    IN  IF route \notin {"FIXED", "WEIGHTED", "DENY"} THEN Raise("ValueError")
        ELSE IF route = "FIXED"
        THEN IF action.gateway = None THEN Raise("ValueError")
             ELSE IF action.gateway \notin gateways THEN Raise("ValueError")
             ELSE Ok(NoneVal)
        ELSE IF route = "WEIGHTED"
        THEN LET weights == action.weights IN
             IF weights = EmptyMap THEN Raise("ValueError")
             ELSE IF \E name \in DOMAIN weights : name \notin gateways THEN Raise("ValueError")
             ELSE IF \E name \in DOMAIN weights : ~ParseInt(weights[name]).ok
             THEN Raise("ValueError")
             ELSE IF \E name \in DOMAIN weights : ParseInt(weights[name]).v < 0
             THEN Raise("ValueError")
             ELSE Ok(NoneVal)
        ELSE IF action.reason_code.t \notin {"none", "str"} THEN Raise("ValueError")
        ELSE Ok(NoneVal)

\* _validate_action returns None or raises
_validate_action(action, gateways_configs) ==
    LET route == action.route
        gateways == DOMAIN gateways_configs
    IN  IF route \notin {"FIXED", "WEIGHTED", "DENY"} THEN Raise("ValueError")
        ELSE IF route = "FIXED"
        THEN IF action.gateway = None THEN Raise("ValueError")
             ELSE IF action.gateway \notin gateways THEN Raise("ValueError")
             ELSE Ok(NoneVal)
        ELSE IF route = "WEIGHTED"
        THEN LET weights == action.weights IN
             IF weights = EmptyMap THEN Raise("ValueError")
             ELSE IF \E name \in DOMAIN weights : name \notin gateways THEN Raise("ValueError")
             ELSE IF \E name \in DOMAIN weights : ~ParseInt(weights[name]).ok
             THEN Raise("ValueError")
             ELSE IF \E name \in DOMAIN weights : ParseInt(weights[name]).v < 0
             THEN Raise("ValueError")
             ELSE IF ~\E name \in DOMAIN weights : ParseInt(weights[name]).v > 0
             THEN Raise("ValueError")
             ELSE Ok(NoneVal)
        ELSE IF action.reason_code.t \notin {"none", "str"} THEN Raise("ValueError")
        ELSE Ok(NoneVal)

\* rows of the rule-set and rule tables
RuleSetDTO(id, version, sticky_salt, default_gateway, is_active) ==
    [id |-> id, version |-> version, sticky_salt |-> sticky_salt,
     default_gateway |-> default_gateway, is_active |-> is_active]

\* None where a rule set is expected
NoRuleSet == RuleSetDTO(None, 0, NoneStr, None, FALSE)

\* None as condition_json
NoJson == [null |-> TRUE]

RuleDTO(id, rule_set_id, priority, enabled, condition_type, condition_value, condition_json, action) ==
    [id |-> id, rule_set_id |-> rule_set_id, priority |-> priority, enabled |-> enabled,
     condition_type |-> condition_type, condition_value |-> condition_value,
     condition_json |-> condition_json, action |-> action]

\* the Repo protocol: what each read returns (a set: empty for None, several
\* where the store leaves the choice open)
get_ruleset_by_id(store, id) == {r \in store.rulesets : r.id = id}
get_active_ruleset(store) == {r \in store.rulesets : r.is_active}
get_gateways_map(store) == store.gateways
get_rules_for_ruleset(store, id) == SelectSeq(store.rules, LAMBDA r : r.rule_set_id = id)

\* lines 162-205: the body of the loop for one rule
compile_rule(r, gateways, debug) ==
    LET ftype == Upper(IF r.condition_type \in {NoneStr, ""} THEN "ADVANCED"
                       ELSE r.condition_type)
        fval == r.condition_value
        fjson == r.condition_json
        cond == IF ftype = "ADVANCED"
                THEN IF fjson = NoJson THEN Raise("ValueError") ELSE Ok(fjson)
                ELSE IF fval = NoneStr THEN Raise("ValueError")
                     ELSE _filter_to_condition_json(ftype, fval)
    IN  IF ~cond.ok THEN Raise("ValueError")
        ELSE LET predicate == compile_predicate(cond.v, debug, <<"RULE", r.id>>) IN
             IF ~predicate.ok THEN Raise("ValueError")
             ELSE IF ~_validate_action(r.action, gateways).ok THEN Raise("ValueError")
             ELSE Ok(Rule(r.id, r.priority, r.enabled, predicate.v, r.action))

\* mutant: a sort that puts a rule before those of equal priority already placed
RECURSIVE SortByPriority_TiesReversed(_)
SortByPriority_TiesReversed(s) ==
    IF s = <<>> THEN <<>>
    ELSE LET front == SortByPriority_TiesReversed(SubSeq(s, 1, Len(s) - 1))
             r == s[Len(s)]
             k == Cardinality({i \in 1..Len(front) : front[i].priority < r.priority})
         IN  SubSeq(front, 1, k) \o <<r>> \o SubSeq(front, k + 1, Len(front))

\* list.sort(key = priority): stable
RECURSIVE SortByPriority(_)
SortByPriority(s) ==
    IF s = <<>> THEN <<>>
    ELSE LET front == SortByPriority(SubSeq(s, 1, Len(s) - 1))
             r == s[Len(s)]
             k == Cardinality({i \in 1..Len(front) : front[i].priority <= r.priority})
         IN  SubSeq(front, 1, k) \o <<r>> \o SubSeq(front, k + 1, Len(front))

\* line 220: the milliseconds the compilation took, as the clock measures them
LoadTimes == {1, 2}

\* what the call gave: a snapshot, or an exception and no snapshot
NoSnapshot == CompiledRuleset(None, 0, NoneStr, <<>>, EmptyMap, None, 0)
NoOutcome == [ok |-> FALSE, snapshot |-> NoSnapshot, error |-> NoneStr]
Returns(snap) == [ok |-> TRUE, snapshot |-> snap, error |-> NoneStr]
Raises(e) == [ok |-> FALSE, snapshot |-> NoSnapshot, error |-> e]

\* lines 144-151: the rule set asked for is found
FetchRuleset ==
    /\ cpc = "ruleset"
    /\ \E found \in (IF arg_ruleset_id # None THEN get_ruleset_by_id(repo, arg_ruleset_id)
                     ELSE get_active_ruleset(repo)) :
          rs' = found
    /\ cpc' = "gateways"
    /\ UNCHANGED <<held, repo, arg_ruleset_id, arg_debug, gws, rules_raw, ri, compiled_rules, outcome>>
    /\ UNCHANGED nonCompileVars

\* lines 146-147 and 150-151: no such rule set
RulesetAbsent ==
    /\ cpc = "ruleset"
    /\ (IF arg_ruleset_id # None THEN get_ruleset_by_id(repo, arg_ruleset_id)
        ELSE get_active_ruleset(repo)) = {}
    /\ outcome' = Raises("RuntimeError")
    /\ cpc' = "done"
    /\ UNCHANGED <<held, repo, arg_ruleset_id, arg_debug, rs, gws, rules_raw, ri, compiled_rules>>
    /\ UNCHANGED nonCompileVars

\* line 153
FetchGateways ==
    /\ cpc = "gateways"
    /\ get_gateways_map(repo) # EmptyMap
    /\ gws' = get_gateways_map(repo)
    /\ cpc' = "rules"
    /\ UNCHANGED <<held, repo, arg_ruleset_id, arg_debug, rs, rules_raw, ri, compiled_rules, outcome>>
    /\ UNCHANGED nonCompileVars

\* lines 154-155
NoGateways ==
    /\ cpc = "gateways"
    /\ get_gateways_map(repo) = EmptyMap
    /\ outcome' = Raises("RuntimeError")
    /\ cpc' = "done"
    /\ UNCHANGED <<held, repo, arg_ruleset_id, arg_debug, rs, gws, rules_raw, ri, compiled_rules>>
    /\ UNCHANGED nonCompileVars

\* lines 157-159
FetchRules ==
    /\ cpc = "rules"
    /\ rules_raw' = get_rules_for_ruleset(repo, rs.id)
    /\ ri' = 1
    /\ compiled_rules' = <<>>
    /\ cpc' = "loop"
    /\ UNCHANGED <<held, repo, arg_ruleset_id, arg_debug, rs, gws, outcome>>
    /\ UNCHANGED nonCompileVars

InCompileLoop == cpc = "loop" /\ ri <= Len(rules_raw)

\* lines 161-205: the rule compiles and is appended
CompileRule ==
    /\ InCompileLoop
    /\ LET c == compile_rule(rules_raw[ri], gws, arg_debug) IN
          /\ c.ok
          /\ compiled_rules' = Append(compiled_rules, c.v)
    /\ ri' = ri + 1
    /\ UNCHANGED <<held, repo, arg_ruleset_id, arg_debug, cpc, rs, gws, rules_raw, outcome>>
    /\ UNCHANGED nonCompileVars

\* what line 210 would be if a failing rule were left out and the loop went on
RuleInvalid_Skipped ==
    /\ InCompileLoop
    /\ ~compile_rule(rules_raw[ri], gws, arg_debug).ok
    /\ ri' = ri + 1
    /\ UNCHANGED <<held, repo, arg_ruleset_id, arg_debug, cpc, rs, gws, rules_raw, compiled_rules,
                   outcome>>
    /\ UNCHANGED nonCompileVars

\* lines 207-210: any exception in the body aborts the whole compilation
RuleInvalid ==
    /\ InCompileLoop
    /\ ~compile_rule(rules_raw[ri], gws, arg_debug).ok
    /\ outcome' = Raises("ValueError")
    /\ cpc' = "done"
    /\ UNCHANGED <<held, repo, arg_ruleset_id, arg_debug, rs, gws, rules_raw, ri, compiled_rules>>
    /\ UNCHANGED nonCompileVars

CompileLoopDone == cpc = "loop" /\ ri > Len(rules_raw)

\* lines 213-218: the default gateway is set and no key of the gateway map
DefaultUnknown ==
    /\ CompileLoopDone
    /\ rs.default_gateway # None
    /\ rs.default_gateway \notin DOMAIN gws
    /\ outcome' = Raises("ValueError")
    /\ cpc' = "done"
    /\ UNCHANGED <<held, repo, arg_ruleset_id, arg_debug, rs, gws, rules_raw, ri, compiled_rules>>
    /\ UNCHANGED nonCompileVars

\* lines 213-240: sort, build the snapshot and return it
ReturnSnapshot ==
    /\ CompileLoopDone
    /\ rs.default_gateway = None \/ rs.default_gateway \in DOMAIN gws
    /\ \E loaded_ms \in LoadTimes :
          outcome' = Returns(CompiledRuleset(rs.id, rs.version, rs.sticky_salt,
                                             SortByPriority(compiled_rules), gws,
                                             rs.default_gateway, loaded_ms))
    /\ cpc' = "done"
    /\ UNCHANGED <<held, repo, arg_ruleset_id, arg_debug, rs, gws, rules_raw, ri, compiled_rules>>
    /\ UNCHANGED nonCompileVars

NextCompile ==
    \/ FetchRuleset
    \/ RulesetAbsent
    \/ FetchGateways
    \/ NoGateways
    \/ FetchRules
    \/ CompileRule
    \/ RuleInvalid
    \/ DefaultUnknown
    \/ ReturnSnapshot

\* no compile_ruleset call is under way
Store(rulesets, gateways, rules) ==
    [rulesets |-> rulesets, gateways |-> gateways, rules |-> rules]

CompileLocals ==
    /\ rs = NoRuleSet
    /\ gws = EmptyMap
    /\ rules_raw = <<>>
    /\ ri = 1
    /\ compiled_rules = <<>>
    /\ outcome = NoOutcome
    /\ held = NoSnapshot

CompileIdle ==
    /\ repo = Store({}, EmptyMap, <<>>)
    /\ arg_ruleset_id = None
    /\ arg_debug = FALSE
    /\ cpc = "idle"
    /\ CompileLocals

---------------------------------------------------------------------------
(* Inputs of select_gateway *)

ApiUser == IntVal(7)

\* all maps from a subset of the gateway names to values in V
MapsInto(V) == UNION {[S -> V] : S \in SUBSET GwNames}

GatewayMaps ==
    UNION {{[n \in S |-> GatewayConfig(n, en[n], mt[n])] :
               en \in [S -> BOOLEAN], mt \in [S -> BOOLEAN]} : S \in SUBSET GwNames}

CtxOf(val) == [f \in {"api_user_id"} |-> val]

\* the contexts considered: api_user_id missing, an integer, a numeric string
Contexts == {EmptyMap, CtxOf(ApiUser), CtxOf(StrVal("7"))}

RuleId(i) == 100 + i

\* the rule tuples of at most N rules, in ascending priority
RulesOver(N, Preds, Acts) ==
    UNION {{[i \in 1..n |-> Rule(RuleId(i), 5 * i, en[i], pr[i], ac[i])] :
               en \in [1..n -> BOOLEAN], pr \in [1..n -> Preds], ac \in [1..n -> Acts]} :
           n \in 0..N}

InitCall ==
    /\ pc = "scan"
    /\ idx = 1
    /\ result = NoResult
    /\ evaluated = {}
    /\ sha = EmptyMap
    /\ ncall = 1
    /\ first = NoResult
    /\ calls = <<>>

\* Spec: the scan over up to MaxRules rules of every route
ScanActions ==
    {Deny, UnknownRoute}
    \cup {Fixed(g) : g \in GwNames}
    \cup {Weighted([n \in GwNames |-> IntVal(50)], NoneStr)}

Init ==
    /\ \E rules \in RulesOver(MaxRules, {CONST_TRUE, CONST_FALSE}, ScanActions),
          gateways \in GatewayMaps, dflt \in {None} \cup GwNames :
          snapshot = CompiledRuleset(1, 1, "salt", rules, gateways, dflt, 0)
    /\ ctx = CtxOf(ApiUser)
    /\ allow_fallback \in BOOLEAN
    /\ on_decision = NoneStr
    /\ InitCall
    /\ CompileIdle
    /\ CallIdle
    /\ CacheIdle

Spec == Init /\ [][Next]_vars

\* SpecSticky: one rule, WEIGHTED over every weights map, called twice
WeightVals == {IntVal(0), IntVal(20), IntVal(80)}

StickyActions ==
    {Deny} \cup {Weighted(w, st) : w \in MapsInto(WeightVals), st \in {NoneStr, "api_user_id"}}

InitSticky ==
    /\ \E rules \in RulesOver(1, {CONST_TRUE, ValueIn("api_user_id", {ApiUser}, "int")},
                             StickyActions),
          gateways \in GatewayMaps, dflt \in {None, 1} :
          snapshot = CompiledRuleset(1, 1, "salt", rules, gateways, dflt, 0)
    /\ ctx \in Contexts
    /\ allow_fallback = TRUE
    /\ on_decision = NoneStr
    /\ InitCall
    /\ CompileIdle
    /\ CallIdle
    /\ CacheIdle

NextTwice == Next \/ CallAgain

SpecSticky == InitSticky /\ [][NextTwice]_vars

---------------------------------------------------------------------------
(* Inputs of compile_ruleset *)

\* no select_gateway call is under way
SelectorIdle ==
    /\ snapshot = NoSnapshot
    /\ ctx = EmptyMap
    /\ allow_fallback = TRUE
    /\ pc = "idle"
    /\ idx = 1
    /\ result = NoResult
    /\ evaluated = {}
    /\ sha = EmptyMap
    /\ ncall = 1
    /\ first = NoResult
    /\ on_decision = NoneStr
    /\ calls = <<>>

\* condition trees: a leaf, a nested composite, and one tree for each error
LeafUser ==
    [type |-> "VALUE_IN", field |-> "api_user_id", values |-> ListOf(ApiUser), coerce |-> "int"]
TreeNested ==
    [all |-> JList(<<[any |-> JList(<<LeafUser>>)], [none |-> JList(<<>>)]>>)]
TreeAmbiguous == [all |-> JList(<<>>), any |-> JList(<<>>)]
TreeNotAList == [any |-> NotAList]
TreeNoType == [field |-> "api_user_id"]
TreeUnregistered == [type |-> "CONST_TRUE"]
TreeBadChild == [all |-> JList(<<LeafUser, EmptyMap>>)]
TreeBadValue ==
    [type |-> "VALUE_IN", field |-> "api_user_id", values |-> ListOf(StrVal("x")),
     coerce |-> "int"]
TreeBadCoerce == [type |-> "VALUE_IN", field |-> "api_user_id", coerce |-> "float"]

\* a rule row without its id
Template(priority, enabled, condition_type, condition_value, condition_json, action) ==
    [priority |-> priority, enabled |-> enabled, condition_type |-> condition_type,
     condition_value |-> condition_value, condition_json |-> condition_json,
     action |-> action]

DenyWith(reason_code) == [Deny EXCEPT !.reason_code = reason_code]

\* rows whose condition compiles; whether the action is valid depends on the gateways
GoodConditionRows ==
    {Template(10, TRUE, "ADVANCED", NoneStr, LeafUser, Fixed(1)),
     Template(5, FALSE, NoneStr, NoneStr, TreeNested, Deny),
     Template(5, TRUE, "user", "7", NoJson, Weighted([n \in GwNames |-> IntVal(50)], NoneStr)),
     Template(10, FALSE, "PIX_KEY", "k", NoJson, DenyWith(StrVal("blocked"))),
     Template(10, FALSE, "pix_key_type", "email", NoJson, Fixed(NumGateways)),
     Template(5, TRUE, "ADVANCED", "7", LeafUser, Weighted([n \in {1} |-> IntVal(0)], NoneStr)),
     Template(5, TRUE, "ADVANCED", "7", LeafUser, Weighted([n \in {1} |-> IntVal(0 - 1)], NoneStr)),
     Template(5, TRUE, "ADVANCED", "7", LeafUser, Weighted(EmptyMap, NoneStr)),
     Template(5, FALSE, "ADVANCED", "7", LeafUser, Fixed(None)),
     Template(5, TRUE, "ADVANCED", "7", LeafUser, UnknownRoute),
     Template(5, TRUE, "ADVANCED", "7", LeafUser, DenyWith(IntVal(4)))}

\* rows whose condition does not resolve or does not compile
BadConditionRows ==
    {Template(10, TRUE, "ADVANCED", "7", NoJson, Fixed(1)),
     Template(10, TRUE, "USER", NoneStr, LeafUser, Fixed(1)),
     Template(10, TRUE, "USER", "x", NoJson, Fixed(1)),
     Template(10, TRUE, "PIX_KEY_TYPE", "BOGUS", NoJson, Fixed(1)),
     Template(10, TRUE, "OTHER", "7", LeafUser, Fixed(1))}
    \cup {Template(5, TRUE, "ADVANCED", NoneStr, t, Fixed(1)) :
             t \in {EmptyMap, TreeAmbiguous, TreeNotAList, TreeNoType, TreeUnregistered,
                    TreeBadChild, TreeBadValue, TreeBadCoerce}}

RowOf(t, id, rule_set_id) ==
    RuleDTO(id, rule_set_id, t.priority, t.enabled, t.condition_type, t.condition_value,
            t.condition_json, t.action)

\* the rule tables: up to MaxRules rows of rule set 1, in any order of priority
RuleTables ==
    UNION {{[i \in 1..n |-> RowOf(ts[i], RuleId(i), 1)] :
               ts \in [1..n -> GoodConditionRows \cup BadConditionRows]} : n \in 0..MaxRules}

\* rule set 2, when present, holds one valid rule
OtherRuleSetRow == RowOf(Template(1, TRUE, "PIX_KEY", "k", NoJson, Deny), RuleId(MaxRules + 1), 2)

\* the rule-set tables: rule set 1 absent, inactive or active; rule set 2 absent or active
RuleSetTables ==
    {one \cup two :
        one \in {{}} \cup {{RuleSetDTO(1, 1, "salt", d, a)} :
                              d \in {None, NumGateways}, a \in BOOLEAN},
        two \in {{}, {RuleSetDTO(2, 3, NoneStr, None, TRUE)}}}

\* the gateway maps: none, gateway 1 only, every gateway
CompileGatewayMaps ==
    {EmptyMap, [n \in {1} |-> GatewayConfig(n, TRUE, FALSE)],
     [n \in GwNames |-> GatewayConfig(n, n = 1, FALSE)]}

InitCompile ==
    /\ \E rulesets \in RuleSetTables, gateways \in CompileGatewayMaps, rows \in RuleTables :
          repo = Store(rulesets, gateways,
                       rows \o (IF \E r \in rulesets : r.id = 2 THEN <<OtherRuleSetRow>>
                                ELSE <<>>))
    /\ arg_ruleset_id \in {None, 1, 2}
    /\ arg_debug \in BOOLEAN
    /\ cpc = "ruleset"
    /\ CompileLocals
    /\ SelectorIdle
    /\ CallIdle
    /\ CacheIdle

SpecCompile == InitCompile /\ [][NextCompile]_vars

---------------------------------------------------------------------------
(* Inputs of compile_ruleset for the order of the rules: longer rule tables *)

MaxRows == 4

\* rows of priorities 10, 5, 10 and 7; the last one does not compile
OrderRows ==
    {Template(10, TRUE, "ADVANCED", NoneStr, LeafUser, Fixed(1)),
     Template(5, TRUE, "USER", "7", NoJson, Deny),
     Template(10, FALSE, "PIX_KEY", "k", NoJson, Deny),
     Template(7, TRUE, "USER", "x", NoJson, Deny)}

OrderTables ==
    UNION {{[i \in 1..n |-> RowOf(ts[i], RuleId(i), 1)] : ts \in [1..n -> OrderRows]} :
           n \in 0..MaxRows}

InitOrder ==
    /\ \E rulesets \in {{}} \cup {{RuleSetDTO(1, 1, "salt", d, TRUE)} : d \in {None, NumGateways}},
          gateways \in {EmptyMap, [n \in {1} |-> GatewayConfig(n, TRUE, FALSE)]},
          rows \in OrderTables :
          repo = Store(rulesets, gateways, rows)
    /\ arg_ruleset_id = None
    /\ arg_debug = FALSE
    /\ cpc = "ruleset"
    /\ CompileLocals
    /\ SelectorIdle
    /\ CallIdle
    /\ CacheIdle

SpecOrder == InitOrder /\ [][NextCompile]_vars

---------------------------------------------------------------------------
(* _validate_action called on its own *)

\* the call returns None or raises; the action dict is the caller's object, which
\* the function does not write to (line 286 is a comment)
ValidateAction ==
    /\ fpc = "call"
    /\ call.f = "_validate_action"
    /\ ret' = [f |-> call.f, r |-> _validate_action(call.action, call.gateways),
               action |-> call.action]
    /\ fpc' = "done"
    /\ UNCHANGED <<call, clock>>
    /\ UNCHANGED nonCallVars

\* values a weight can have: negative, zero, positive, numeric string, text, None
RawWeights == {IntVal(0 - 1), IntVal(0), IntVal(30), StrVal("7"), StrVal("x"), NoneVal}

\* action dicts: every route (also absent, unknown and lower case), gateway absent,
\* known or unknown, every weights map, reason_code absent, a string or a number
RawActions ==
    {[route |-> rt, gateway |-> g, weights |-> w, sticky_by |-> NoneStr, reason_code |-> rc] :
        rt \in {NoneStr, "FIXED", "WEIGHTED", "DENY", "SPLIT", "fixed"},
        g \in {None} \cup GwNames,
        w \in MapsInto(RawWeights),
        rc \in {NoneVal, StrVal("blocked"), IntVal(4)}}

InitValidate ==
    /\ fpc = "call"
    /\ \E a \in RawActions, g \in CompileGatewayMaps :
          call = [f |-> "_validate_action", action |-> a, gateways |-> g]
    /\ ret = NoCall
    /\ clock = Midnight
    /\ SelectorIdle
    /\ CompileIdle
    /\ CacheIdle

SpecValidate == InitValidate /\ [][ValidateAction]_vars

---------------------------------------------------------------------------
(* What the properties below speak of, stated from the inputs alone *)

Rules == snapshot.rules
RuleIdx == 1..Len(Rules)
Returned == pc = "done"
Dec == result.decision

\* a gateway is available iff it is known, enabled and not in maintenance
Available(n) ==
    /\ n \in DOMAIN snapshot.gateways
    /\ snapshot.gateways[n].is_enabled
    /\ ~snapshot.gateways[n].in_maintenance

\* rule i is enabled and its predicate accepts ctx
Accepts(i) == Rules[i].enabled /\ Call(Rules[i].predicate, ctx)

IsDeny(i) == Rules[i].action.route = "DENY"

\* the gateways rule i's action can resolve to
PossibleGateways(i) ==
    LET a == Rules[i].action IN
    CASE a.route = "FIXED" -> {n \in {a.gateway} : Available(n)}
      [] a.route = "WEIGHTED" -> {n \in DOMAIN a.weights : Available(n) /\ a.weights[n].v > 0}
      [] OTHER -> {}

ProducesGateway(i) == PossibleGateways(i) # {}

\* rule i ends the scan: it accepts ctx and is a DENY or produces a gateway
Decides(i) == Accepts(i) /\ (IsDeny(i) \/ ProducesGateway(i))

\* rule i is the first rule that ends the scan
FirstDeciding(i) == Decides(i) /\ \A j \in 1..(i - 1) : ~Decides(j)

---------------------------------------------------------------------------
(* C1: a returned matched_rule_id r names a rule that is enabled and accepts   *)
(* ctx, and every enabled accepting rule before r produced no gateway; when    *)
(* two enabled rules accept ctx and the one with the higher priority produces  *)
(* a gateway, the gateway and matched_rule_id returned are that rule's.        *)
C1_FirstAcceptingRuleWins ==
    Returned =>
      /\ Dec.matched_rule_id # None =>
            \E i \in RuleIdx :
               /\ Rules[i].id = Dec.matched_rule_id
               /\ Accepts(i)
               /\ \A j \in 1..(i - 1) : Accepts(j) => ~ProducesGateway(j)
      /\ \A i, j \in RuleIdx :
            (/\ i < j
             /\ Accepts(i) /\ Accepts(j)
             /\ \A k \in 1..(i - 1) : ~Accepts(k)
             /\ ProducesGateway(i))
            => /\ Dec.matched_rule_id = Rules[i].id
               /\ Dec.gateway \in PossibleGateways(i)
               /\ result.gw = snapshot.gateways[Dec.gateway]

C1_Witness ==
    /\ Returned
    /\ \E i, j \in RuleIdx :
          /\ i < j
          /\ Accepts(i) /\ Accepts(j)
          /\ Rules[i].action.route = "FIXED" /\ Rules[j].action.route = "FIXED"
          /\ Rules[i].action.gateway # Rules[j].action.gateway
          /\ ProducesGateway(i) /\ ProducesGateway(j)
          /\ Dec.matched_rule_id = Rules[i].id

(* C2: the first deciding rule being a DENY, the call returns                  *)
(* (None, Decision(rule id, "DENY", None, "denied")) at once: no later rule is *)
(* evaluated and the default gateway is not used.                              *)
C2_DenyShortCircuits ==
    Returned =>
      \A i \in RuleIdx :
         (FirstDeciding(i) /\ IsDeny(i))
         => /\ result = [gw |-> NoGateway,
                         decision |-> Decision(Rules[i].id, "DENY", None, "denied")]
            /\ evaluated \subseteq 1..i

C2_Witness ==
    /\ Returned
    /\ Dec.reason = "denied"
    /\ allow_fallback
    /\ Available(snapshot.default_gateway)
    /\ \E i, j \in RuleIdx : i < j /\ FirstDeciding(i) /\ Accepts(j) /\ ProducesGateway(j)

(* C3: an accepting rule whose FIXED or WEIGHTED action yields no gateway does  *)
(* not end the call; when a later rule produces a gateway, matched_rule_id is   *)
(* the id of that later rule.                                                   *)
C3_UnresolvedFallsThrough ==
    Returned =>
      \A i \in RuleIdx :
         (/\ Accepts(i)
          /\ Rules[i].action.route \in {"FIXED", "WEIGHTED"}
          /\ ~ProducesGateway(i))
         => /\ Dec.matched_rule_id # Rules[i].id
            /\ \A j \in RuleIdx :
                  (i < j /\ FirstDeciding(j) /\ ProducesGateway(j))
                  => /\ Dec.matched_rule_id = Rules[j].id
                     /\ Dec.gateway \in PossibleGateways(j)
                     /\ result.gw # NoGateway

C3_Witness ==
    /\ Returned
    /\ \E i, j \in RuleIdx :
          /\ i < j
          /\ Accepts(i) /\ Rules[i].action.route = "FIXED" /\ ~ProducesGateway(i)
          /\ Rules[i].action.gateway \in DOMAIN snapshot.gateways
          /\ Dec.matched_rule_id = Rules[j].id
          /\ result.gw # NoGateway

(* C4: no rule having produced a gateway or a DENY, allow_fallback being true   *)
(* and the default gateway being available, the call returns the default        *)
(* gateway with Decision(None, None, its name, "fallback").                     *)
C4_FallbackToDefault ==
    (/\ Returned
     /\ \A i \in RuleIdx : ~Decides(i)
     /\ allow_fallback
     /\ snapshot.default_gateway # None
     /\ Available(snapshot.default_gateway))
    => result = [gw |-> snapshot.gateways[snapshot.default_gateway],
                 decision |-> Decision(None, NoneStr, snapshot.default_gateway, "fallback")]

C4_Witness ==
    /\ Returned
    /\ Dec.reason = "fallback"
    /\ \E i \in RuleIdx :
          Accepts(i) /\ Rules[i].action.route = "FIXED" /\ ~ProducesGateway(i)

(* C5: with allow_fallback = False no Decision has reason "fallback", and a     *)
(* gateway is returned only as the result of an accepting rule's own action.    *)
C5_NoFallbackWhenDisallowed ==
    (Returned /\ ~allow_fallback)
    => /\ Dec.reason # "fallback"
       /\ result.gw # NoGateway =>
             \E i \in RuleIdx :
                /\ Accepts(i)
                /\ Rules[i].id = Dec.matched_rule_id
                /\ Dec.gateway \in PossibleGateways(i)

C5_Witness ==
    /\ Returned
    /\ ~allow_fallback
    /\ snapshot.default_gateway # None
    /\ Available(snapshot.default_gateway)
    /\ \A i \in RuleIdx : ~Decides(i)
    /\ result.gw = NoGateway

(* C6: when no gateway is returned and the reason is not "denied", the reason   *)
(* is "no_available_gw" iff the snapshot holds an enabled rule, and "no_rule"   *)
(* otherwise.                                                                   *)
C6_ReasonWithoutGateway ==
    (Returned /\ result.gw = NoGateway /\ Dec.reason # "denied")
    => Dec.reason = (IF \E i \in RuleIdx : Rules[i].enabled
                     THEN "no_available_gw" ELSE "no_rule")

C6_Witness ==
    /\ Returned
    /\ Dec.reason = "no_available_gw"
    /\ \A i \in RuleIdx : ~Accepts(i)

---------------------------------------------------------------------------
(* C7: removing a rule whose predicate never matches, or disabling it, leaves  *)
(* the result of select_gateway unchanged.                                     *)

RemoveRule(snap, i) ==
    [snap EXCEPT !.rules = SubSeq(snap.rules, 1, i - 1)
                             \o SubSeq(snap.rules, i + 1, Len(snap.rules)),
                 !.total_rules = Len(snap.rules) - 1]

DisableRule(snap, i) == [snap EXCEPT !.rules[i].enabled = FALSE]

\* the predicate rejects every context
NeverMatches(m) == \A c \in Contexts : ~Call(m, c)

\* the buckets that can make a difference to a call on this snapshot
BucketsOf(snap) ==
    IF \E i \in 1..Len(snap.rules) : snap.rules[i].action.route = "WEIGHTED"
    THEN Buckets ELSE {0}

\* C7 as claimed: every field of the result is unchanged (refuted: the reason changes)
C7_TransparentAllFields ==
    Returned =>
      \A i \in RuleIdx :
         NeverMatches(Rules[i].predicate)
         => \A other \in {RemoveRule(snapshot, i), DisableRule(snapshot, i)} :
               \A b \in BucketsOf(snapshot) :
                  select_gateway(ctx, other, allow_fallback, b)
                     = select_gateway(ctx, snapshot, allow_fallback, b)

\* C7 as amended: the gateway, matched_rule_id and route are unchanged, and the
\* reason is unchanged except that "no_available_gw" becomes "no_rule" when the rule
\* was the only enabled rule of the snapshot
C7_TransparentButReason ==
    Returned =>
      \A i \in RuleIdx :
         NeverMatches(Rules[i].predicate)
         => \A other \in {RemoveRule(snapshot, i), DisableRule(snapshot, i)} :
               \A b \in BucketsOf(snapshot) :
                  LET r0 == select_gateway(ctx, snapshot, allow_fallback, b)
                      r1 == select_gateway(ctx, other, allow_fallback, b)
                      onlyEnabled == /\ Rules[i].enabled
                                     /\ \A j \in RuleIdx \ {i} : ~Rules[j].enabled
                  IN  /\ r0 = result \/ Dec.route = "WEIGHTED"
                      /\ r1.gw = r0.gw
                      /\ r1.decision.matched_rule_id = r0.decision.matched_rule_id
                      /\ r1.decision.route = r0.decision.route
                      /\ r1.decision.gateway = r0.decision.gateway
                      /\ IF onlyEnabled /\ r0.decision.reason = "no_available_gw"
                         THEN r1.decision.reason = "no_rule"
                         ELSE r1.decision.reason = r0.decision.reason

C7_Witness ==
    /\ Returned
    /\ \E i, j \in RuleIdx :
          /\ i < j
          /\ NeverMatches(Rules[i].predicate) /\ Rules[i].enabled
          /\ Accepts(j) /\ ProducesGateway(j)
          /\ Dec.matched_rule_id = Rules[j].id

---------------------------------------------------------------------------
(* C8: for a ctx whose deciding rule is WEIGHTED with sticky_by set and         *)
(* ctx[sticky_by] present, a second call on the same snapshot returns the same  *)
(* gateway: the one the hash of (sticky value, seed) selects from the           *)
(* normalized weights of the available gateways.                                *)
StickyDecided(i) ==
    /\ Rules[i].id = first.decision.matched_rule_id
    /\ Rules[i].action.route = "WEIGHTED"
    /\ Rules[i].action.sticky_by # NoneStr
    /\ _get_field(ctx, Rules[i].action.sticky_by) # NoneVal

C8_StickyDeterminism ==
    (Returned /\ ncall = 2)
    => \A i \in RuleIdx :
          StickyDecided(i)
          => /\ result = first
             /\ LET input == <<Str(_get_field(ctx, Rules[i].action.sticky_by)),
                              snapshot.ruleset_id, snapshot.version, snapshot.sticky_salt,
                              Rules[i].id>>
                IN  /\ input \in DOMAIN sha
                    /\ result.gw = _pick_weighted(Rules[i].action.weights,
                                                  snapshot.gateways, sha[input])

C8_Witness ==
    /\ Returned
    /\ ncall = 2
    /\ \E i \in RuleIdx : StickyDecided(i) /\ Cardinality(PossibleGateways(i)) > 1

(* C9: a WEIGHTED action resolves to (gw, "matched") for every bucket 0..99     *)
(* when a gateway named in weights is available with weight > 0, gw being one   *)
(* of those gateways, and to (None, "weighted_unavailable") otherwise;          *)
(* unavailable gateways are dropped before the weights are normalized to 100.   *)
C9_WeightedResolution ==
    \A i \in RuleIdx :
       Rules[i].action.route = "WEIGHTED"
       => LET w == Rules[i].action.weights
              good == {n \in DOMAIN w : Available(n) /\ w[n].v > 0}
              norm == _normalize_weights(Candidates(w, snapshot.gateways))
          IN  \* the first call is at rule i: what its action resolves to, per bucket
              /\ (pc = "scan" /\ idx = i /\ ncall = 1)
                 => /\ \A b \in Buckets :
                          LET r == resolve_action(Rules[i], snapshot, b) IN
                          IF good # {}
                          THEN /\ r.reason = "matched"
                               /\ r.gw.name \in good
                               /\ r.gw = snapshot.gateways[r.gw.name]
                          ELSE r = [gw |-> NoGateway, reason |-> "weighted_unavailable"]
                    /\ DOMAIN norm = good
                    /\ good # {} => SumMap(norm) = 100
              \* the call has returned: what it returned when rule i decided
              /\ (Returned /\ FirstDeciding(i))
                 => /\ Dec.matched_rule_id = Rules[i].id
                    /\ Dec.reason = "matched"
                    /\ Dec.gateway \in good

C9_Witness ==
    /\ Returned
    /\ \E i \in RuleIdx :
          /\ Accepts(i)
          /\ Rules[i].action.route = "WEIGHTED"
          /\ _get_field(ctx, "api_user_id") = NoneVal
          /\ \E n, m \in DOMAIN Rules[i].action.weights :
                /\ Rules[i].action.weights[n].v > 0 /\ Rules[i].action.weights[m].v > 0
                /\ m \in DOMAIN snapshot.gateways /\ ~Available(m)
                /\ Dec.gateway = n

---------------------------------------------------------------------------
(* C10 *)

\* section 4.C: a node is a composite with exactly one of all/any/none whose body
\* is a list of well-formed nodes, or a leaf with a registered type whose
\* parameters its factory accepts
RECURSIVE WellFormed(_)
WellFormed(tree) ==
    LET keys == DOMAIN tree \cap {"all", "any", "none"} IN
    /\ DOMAIN tree # {}
    /\ Cardinality(keys) <= 1
    /\ \A k \in keys :
          /\ tree[k].islist
          /\ \A i \in 1..Len(tree[k].items) : WellFormed(tree[k].items[i])
    /\ keys = {} =>
          /\ "type" \in DOMAIN tree
          /\ tree.type = "VALUE_IN"
          /\ "impl" \notin DOMAIN tree
          /\ "field" \in DOMAIN tree
          /\ "coerce" \in DOMAIN tree => tree.coerce \in {"int", "str", "lower-str"}
          /\ ("coerce" \in DOMAIN tree /\ tree.coerce = "int" /\ "values" \in DOMAIN tree) =>
                \A i \in 1..Len(tree.values.items) :
                    \/ tree.values.items[i].t = "int"
                    \/ \E d \in 1..Len(Digits) : tree.values.items[i] = StrVal(Digits[d])

\* section 4.D step 4: the condition of a row resolves to a well-formed tree
ConditionValid(r) ==
    LET ct == IF r.condition_type = NoneStr THEN "ADVANCED" ELSE Upper(r.condition_type) IN
    CASE ct = "ADVANCED" -> r.condition_json # NoJson /\ WellFormed(r.condition_json)
      [] ct = "USER" ->
            /\ r.condition_value # NoneStr
            /\ \E d \in 1..Len(Digits) : r.condition_value = Digits[d]
      [] ct = "PIX_KEY" -> r.condition_value # NoneStr
      [] ct = "PIX_KEY_TYPE" ->
            /\ r.condition_value # NoneStr
            /\ Upper(r.condition_value) \in ALLOWED_PIX_TYPES
      [] OTHER -> FALSE

\* section 4.E
ActionValid(a, known) ==
    \/ a.route = "FIXED" /\ a.gateway \in known
    \/ /\ a.route = "WEIGHTED"
       /\ DOMAIN a.weights # {}
       /\ DOMAIN a.weights \subseteq known
       /\ \A n \in DOMAIN a.weights : a.weights[n].t = "int" /\ a.weights[n].v >= 0
       /\ \E n \in DOMAIN a.weights : a.weights[n].v > 0
    \/ a.route = "DENY" /\ a.reason_code.t \in {"none", "str"}

\* the rule sets the call asks for: the one with the id given, or the active ones
AskedFor ==
    IF arg_ruleset_id = None THEN {r \in repo.rulesets : r.is_active}
    ELSE {r \in repo.rulesets : r.id = arg_ruleset_id}

\* the rows the repository holds for the rule set fetched
RowsFetched == SelectSeq(repo.rules, LAMBDA r : r.rule_set_id = rs.id)

\* C10: when compile_ruleset ends it has either returned a snapshot that holds every
\* rule the repository returned for the rule set (total_rules = the number of rows
\* fetched, one compiled rule per row) or raised without any snapshot; it has raised
\* whenever the rule set asked for is absent, the gateway map is empty, the condition,
\* predicate or action of some row is invalid, or default_gateway is set and unknown.
C10_CompleteOrRaises ==
    cpc = "done" =>
        /\ outcome.ok \/ (outcome.error # NoneStr /\ outcome.snapshot = NoSnapshot)
        /\ outcome.ok =>
              /\ outcome.snapshot.total_rules = Len(RowsFetched)
              /\ Len(outcome.snapshot.rules) = Len(RowsFetched)
              /\ \A i \in 1..Len(RowsFetched) :
                    \E j \in 1..Len(outcome.snapshot.rules) :
                        outcome.snapshot.rules[j].id = RowsFetched[i].id
        /\ AskedFor = {} => ~outcome.ok
        /\ repo.gateways = EmptyMap => ~outcome.ok
        /\ (\E i \in 1..Len(RowsFetched) :
                \/ ~ConditionValid(RowsFetched[i])
                \/ ~ActionValid(RowsFetched[i].action, DOMAIN repo.gateways)) => ~outcome.ok
        /\ (rs # NoRuleSet /\ rs.default_gateway # None
                /\ rs.default_gateway \notin DOMAIN repo.gateways) => ~outcome.ok

\* the second of two rows is invalid after the first compiled: the call raised and
\* gave no snapshot
C10_Witness ==
    /\ cpc = "done"
    /\ Len(rules_raw) = 2
    /\ Len(compiled_rules) = 1
    /\ ri = 2
    /\ ~outcome.ok
    /\ outcome.snapshot = NoSnapshot

---------------------------------------------------------------------------
(* C11 *)

\* the snapshot compile_ruleset returned, when it returned one
Compiled == cpc = "done" /\ outcome.ok
Snap == outcome.snapshot

\* C11: in every snapshot compile_ruleset returns, the gateway of each FIXED action,
\* every key of each WEIGHTED action's weights, and default_gateway when it is set,
\* are keys of snapshot.gateways, for enabled and disabled rules alike.
C11_GatewayNamesKnown ==
    Compiled =>
        /\ \A i \in 1..Len(Snap.rules) :
              LET a == Snap.rules[i].action IN
              /\ a.route = "FIXED" => a.gateway \in DOMAIN Snap.gateways
              /\ a.route = "WEIGHTED" => DOMAIN a.weights \subseteq DOMAIN Snap.gateways
        /\ Snap.default_gateway # None => Snap.default_gateway \in DOMAIN Snap.gateways

\* a snapshot with a disabled FIXED rule, a WEIGHTED rule and a default gateway
C11_Witness ==
    /\ Compiled
    /\ Snap.default_gateway # None
    /\ \E i, j \in 1..Len(Snap.rules) :
          /\ Snap.rules[i].action.route = "FIXED" /\ ~Snap.rules[i].enabled
          /\ Snap.rules[j].action.route = "WEIGHTED" /\ Snap.rules[j].enabled

---------------------------------------------------------------------------
(* C12 *)

\* where the repository returned the row a compiled rule comes from
RawPos(id) == CHOOSE k \in 1..Len(RowsFetched) : RowsFetched[k].id = id

\* C12: in every snapshot compile_ruleset returns, the rules are in non-decreasing
\* priority, and rules of equal priority are in the order in which the repository
\* returned them, whatever order the repository returned the rows in.
C12_SortedByPriorityStable ==
    Compiled =>
        \A i, j \in 1..Len(Snap.rules) :
            i < j =>
                /\ Snap.rules[i].priority <= Snap.rules[j].priority
                /\ Snap.rules[i].priority = Snap.rules[j].priority
                      => RawPos(Snap.rules[i].id) < RawPos(Snap.rules[j].id)

\* the repository returned rows out of order, with two of equal priority around a
\* lower one, and the compilation succeeded
C12_Witness ==
    /\ Compiled
    /\ \E a, b, c \in 1..Len(RowsFetched) :
          /\ a < b /\ b < c
          /\ RowsFetched[a].priority = RowsFetched[c].priority
          /\ RowsFetched[b].priority < RowsFetched[a].priority
    /\ Len(Snap.rules) = Len(RowsFetched)

---------------------------------------------------------------------------
(* C13 *)

\* section 4.E; a reason_code that reads as None is an absent one
C13_Acceptable(a, known) ==
    \/ a.route = "FIXED" /\ a.gateway # None /\ a.gateway \in known
    \/ /\ a.route = "WEIGHTED"
       /\ DOMAIN a.weights # {}
       /\ DOMAIN a.weights \subseteq known
       /\ \A n \in DOMAIN a.weights : ParseInt(a.weights[n]).ok /\ ParseInt(a.weights[n]).v >= 0
       /\ \E n \in DOMAIN a.weights : ParseInt(a.weights[n]).v > 0
    \/ a.route = "DENY" /\ a.reason_code.t \in {"none", "str"}

\* C13: _validate_action returns without error exactly for a FIXED action whose
\* gateway is a string and a key of the gateway map, a WEIGHTED action whose weights
\* are a non-empty map with only known gateways as keys, every value coercing to an
\* integer >= 0 and one of them > 0, and a DENY action whose reason_code is absent or
\* a string; every other action raises, and the action map is left as it was.
C13_ValidateActionIff ==
    (fpc = "done" /\ ret.f = "_validate_action") =>
        /\ ret.r.ok <=> C13_Acceptable(call.action, DOMAIN call.gateways)
        /\ ~ret.r.ok => ret.r.error = "ValueError"
        /\ ret.action = call.action

\* a WEIGHTED action over two known gateways, one weight a numeric string, the
\* weights not summing to 100, was accepted and is unchanged
C13_Witness ==
    /\ fpc = "done"
    /\ ret.f = "_validate_action"
    /\ ret.r.ok
    /\ call.action.route = "WEIGHTED"
    /\ \E n, m \in DOMAIN call.action.weights :
          /\ call.action.weights[n] = StrVal("7")
          /\ call.action.weights[m] = IntVal(30)
    /\ ret.action.weights = call.action.weights

---------------------------------------------------------------------------
(* compile_predicate on its own: a tree is compiled, then the matcher is called *)

\* a VALUE_IN leaf without coerce: the raw value is looked up
LeafRaw == [type |-> "VALUE_IN", field |-> "api_user_id", values |-> ListOf(ApiUser)]

Leaves == {LeafUser, LeafRaw}

SeqsUpTo(S, n) == UNION {[1..k -> S] : k \in 0..n}

\* the well-formed trees of at most d levels of all / any / none over the leaves
RECURSIVE Trees(_)
Trees(d) ==
    IF d = 0 THEN Leaves
    ELSE LET T == Trees(d - 1)
             L == SeqsUpTo(T, MaxChildren)
         IN  T \cup {[all |-> JList(s)] : s \in L}
               \cup {[any |-> JList(s)] : s \in L}
               \cup {[none |-> JList(s)] : s \in L}

WellFormedTrees == Trees(MaxDepth)

PredicateTrees ==
    WellFormedTrees \cup {TreeAmbiguous, TreeNotAList, TreeNoType, TreeBadChild}

\* compile_predicate(tree, debug=debug), path "ROOT"
CompilePredicate ==
    /\ fpc = "call"
    /\ call.f = "compile_predicate"
    /\ ret' = [f |-> call.f, r |-> compile_predicate(call.tree, call.debug, <<"ROOT">>)]
    /\ fpc' = "compiled"
    /\ UNCHANGED <<call, clock>>
    /\ UNCHANGED nonCallVars

\* matcher(ctx) on the matcher that compile_predicate returned
CallPredicate ==
    /\ fpc = "compiled"
    /\ ret.r.ok
    /\ ret' = [f |-> "__call__", matcher |-> ret.r.v, r |-> __call__(ret.r.v, call.ctx)]
    /\ fpc' = "done"
    /\ UNCHANGED <<call, clock>>
    /\ UNCHANGED nonCallVars

NextPredicate == CompilePredicate \/ CallPredicate

InitPredicate ==
    /\ fpc = "call"
    /\ \E t \in PredicateTrees, d \in BOOLEAN, c \in Contexts :
          call = [f |-> "compile_predicate", tree |-> t, debug |-> d, ctx |-> c]
    /\ ret = NoCall
    /\ clock = Midnight
    /\ SelectorIdle
    /\ CompileIdle
    /\ CacheIdle

SpecPredicate == InitPredicate /\ [][NextPredicate]_vars

\* the matcher has been compiled from a well-formed tree and called
Evaluated == fpc = "done" /\ ret.f = "__call__"

---------------------------------------------------------------------------
(* C14 *)

\* the naive evaluation of a tree: a leaf is what its matcher answers, all is
\* the conjunction of the children, any the disjunction, none the negation of
\* the disjunction
RECURSIVE naive_eval(_, _)
naive_eval(tree, c) ==
    IF "all" \in DOMAIN tree
    THEN \A i \in 1..Len(tree.all.items) : naive_eval(tree.all.items[i], c)
    ELSE IF "any" \in DOMAIN tree
    THEN \E i \in 1..Len(tree.any.items) : naive_eval(tree.any.items[i], c)
    ELSE IF "none" \in DOMAIN tree
    THEN ~\E i \in 1..Len(tree.none.items) : naive_eval(tree.none.items[i], c)
    ELSE ValueInCall(build_matcher(tree).v, c).v

\* C14: for a well-formed tree T and any ctx, the matcher compile_predicate(T)
\* returns evaluates, without raising, to the naive evaluation of T
C14_CompileEqualsNaive ==
    (Evaluated /\ ~call.debug) => (ret.r.ok /\ ret.r.v = naive_eval(call.tree, call.ctx))

\* a nested all with a constant child was flattened and folded to an All of
\* the two leaves, which the integer context satisfies
C14_Witness ==
    /\ Evaluated
    /\ ~call.debug
    /\ call.tree = [all |-> JList(<<[all |-> JList(<<LeafUser, LeafRaw>>)],
                                    [none |-> JList(<<>>)]>>)]
    /\ call.ctx = CtxOf(ApiUser)
    /\ ret.matcher.name = "ALL"
    /\ Len(ret.matcher.children) = 2
    /\ ret.r.ok
    /\ ret.r.v

---------------------------------------------------------------------------
(* C15 *)

\* the matcher behind the debug wrappers
RECURSIVE Unwrap(_)
Unwrap(m) == IF IsDebugWrap(m) THEN Unwrap(m.inner) ELSE m

\* the All, Any and NoneOf nodes of a matcher tree, wrappers looked through
RECURSIVE Composites(_)
Composites(m) ==
    LET n == Unwrap(m) IN
    IF n.name \in {"ALL", "ANY"}
    THEN {n} \cup UNION {Composites(n.children[i]) : i \in 1..Len(n.children)}
    ELSE IF n.name = "NONE" THEN {n} \cup Composites(n.child)
    ELSE {}

\* compile_predicate has returned a matcher
Built == fpc = "compiled" /\ ret.r.ok

NoSameKindChild(m) ==
    \A n \in Composites(m) :
        n.name \in {"ALL", "ANY"} =>
            \A i \in 1..Len(n.children) : Unwrap(n.children[i]).name # n.name

\* C15: in the matcher compile_predicate returns, whatever the options, no All
\* has an All as a child and no Any an Any, the debug wrapper counting as the
\* node it wraps
C15_NoNestedSameKind == Built => NoSameKindChild(ret.r.v)

\* an all nested in an all was compiled with tracing: the outer All keeps the
\* wrapped inner All as its first child
C15_Witness ==
    /\ Built
    /\ call.debug
    /\ call.tree = [all |-> JList(<<[all |-> JList(<<LeafUser, LeafRaw>>)], LeafUser>>)]
    /\ Unwrap(ret.r.v).name = "ALL"
    /\ Len(Unwrap(ret.r.v).children) = 2
    /\ Unwrap(ret.r.v).children[1].name = "DBG(ALL)"

---------------------------------------------------------------------------
(* C16 *)

IsConstant(m) == Unwrap(m).name \in {"CONST_TRUE", "CONST_FALSE"}

\* what folding leaves: an All or Any has at least two children and none of
\* them is a constant, and a NoneOf does not negate a constant
Folded(m) ==
    \A n \in Composites(m) :
        IF n.name = "NONE" THEN ~IsConstant(n.child)
        ELSE /\ Len(n.children) >= 2
             /\ \A i \in 1..Len(n.children) : ~IsConstant(n.children[i])

\* C16: in the matcher compile_predicate returns, whatever the options, no
\* ConstTrue or ConstFalse is a child of an All or Any, no All or Any is left
\* with fewer than two children, and no NoneOf is left over a constant
C16_NoConstantChild == Built => Folded(ret.r.v)

\* all over an empty any and a leaf was compiled with tracing: the All keeps
\* the wrapped ConstFalse as a child instead of becoming ConstFalse
C16_Witness ==
    /\ Built
    /\ call.debug
    /\ call.tree = [all |-> JList(<<[any |-> JList(<<>>)], LeafUser>>)]
    /\ Unwrap(ret.r.v).name = "ALL"
    /\ Unwrap(ret.r.v).children[1] = DebugWrap(CONST_FALSE, <<"ROOT", "ALL", 0>>)

---------------------------------------------------------------------------
(* C17 *)

\* compile_predicate(T, debug=False)(ctx) for the tree and ctx of the call
WithoutDebug == __call__(compile_predicate(call.tree, FALSE, <<"ROOT">>).v, call.ctx)

\* C17: for every tree T and ctx, compile_predicate(T, debug=True)(ctx) is
\* what compile_predicate(T, debug=False)(ctx) is
C17_DebugTransparent ==
    (Evaluated /\ call.debug) => (ret.r.ok /\ WithoutDebug.ok /\ ret.r.v = WithoutDebug.v)

\* any over two leaves compiled with tracing and called on the integer
\* context: the call raises TypeError where the untraced matcher returns True
C17_Witness ==
    /\ Evaluated
    /\ call.debug
    /\ call.tree = [any |-> JList(<<LeafUser, LeafRaw>>)]
    /\ call.ctx = CtxOf(ApiUser)
    /\ WithoutDebug.ok
    /\ WithoutDebug.v
    /\ ~ret.r.ok
    /\ ret.r.error = "TypeError"

---------------------------------------------------------------------------
(* SpecLeaf: one rule whose predicate is a leaf matcher, over contexts that
   hold values of every type *)

LeafField == "amount"

\* the matchers the four factories build
LeafMatchers ==
    {ValueIn(LeafField, {IntVal(7)}, co) : co \in {NoneStr, "int"}}
    \cup {ValueIn(LeafField, {StrVal("7")}, co) : co \in {"str", "lower-str"}}
    \cup {RegexMatcher(LeafField, "7", mode, co, ml) :
             mode \in {"search", "fullmatch"}, co \in {NoneStr, "str", "lower-str"},
             ml \in {None, 2}}
    \cup {AmountRange(LeafField, co, sc, mn, mx, mi, TRUE) :
             co \in {"int", "decimal"}, sc \in {0, 2}, mn \in {NoneVal, Decimal(100)},
             mx \in {NoneVal, Decimal(1000)}, mi \in BOOLEAN}
    \cup {TimeWindow(tz, w[1], w[2], d) :
             tz \in {0, -3}, w \in {<<9, 18>>, <<22, 6>>}, d \in {NoDays, Days({0})}}

\* what a context may hold under a key: None, an integer, a numeric string, a
\* non-numeric string, "NaN", a list, a dict, a naive and an aware datetime
LeafValues ==
    {NoneVal, IntVal(7), StrVal("7"), StrVal("x"), StrVal("NaN"), ListVal, MapVal,
     DateTime(0, 12, FALSE, 0), DateTime(6, 23, TRUE, 0)}

LeafContexts ==
    {EmptyMap} \cup {[f \in {k} |-> val] : k \in {LeafField, "now"}, val \in LeafValues}

Clocks == {Midnight, [dow |-> 6, tod |-> 23]}

InitLeaf ==
    /\ \E rules \in RulesOver(1, LeafMatchers, {Deny, Fixed(1)}),
          en \in BOOLEAN, dflt \in {None, 1} :
          snapshot = CompiledRuleset(1, 1, "salt", rules,
                                     [n \in {1} |-> GatewayConfig(1, en, FALSE)], dflt, 0)
    /\ ctx \in LeafContexts
    /\ allow_fallback = TRUE
    /\ on_decision = NoneStr
    /\ InitCall
    /\ CompileIdle
    /\ fpc = "idle"
    /\ call = NoCall
    /\ ret = NoCall
    /\ clock \in Clocks
    /\ CacheIdle

NextLeaf == Next \/ PredicateRaises

SpecLeaf == InitLeaf /\ [][NextLeaf]_vars

---------------------------------------------------------------------------
(* C18 *)

\* the only rule is enabled and its predicate has been called
LeafCalled == snapshot.rules # <<>> /\ 1 \in evaluated

\* the field the leaf reads is missing from ctx or None
FieldMissing ==
    /\ snapshot.rules[1].predicate.name # "TIME_WINDOW"
    /\ _get_field(ctx, LeafField) = NoneVal

\* C18: a leaf matcher called on any ctx returns a boolean and never raises,
\* so select_gateway does not raise, and a leaf whose field is missing does
\* not match
C18_LeafNeverRaises ==
    /\ pc # "raised"
    /\ (Returned /\ LeafCalled /\ FieldMissing) => Dec.matched_rule_id = None

\* a TIME_WINDOW rule met a "now" that is a string: select_gateway raised
C18_Witness ==
    /\ pc = "raised"
    /\ snapshot.rules[1].predicate.name = "TIME_WINDOW"
    /\ ctx = [f \in {"now"} |-> StrVal("x")]

---------------------------------------------------------------------------
(* SpecRecompile: the same repository is compiled twice, then select_gateway
   is called with the same ctx on the first snapshot and on the second *)

\* the first compilation returned: the caller keeps its snapshot and calls
\* compile_ruleset again
KeepSnapshot ==
    /\ cpc = "done"
    /\ outcome.ok
    /\ held = NoSnapshot
    /\ pc = "idle"
    /\ held' = outcome.snapshot
    /\ cpc' = "ruleset"
    /\ rs' = NoRuleSet
    /\ gws' = EmptyMap
    /\ rules_raw' = <<>>
    /\ ri' = 1
    /\ compiled_rules' = <<>>
    /\ outcome' = NoOutcome
    /\ UNCHANGED <<repo, arg_ruleset_id, arg_debug>>
    /\ UNCHANGED nonCompileVars

\* the second compilation returned: select_gateway(ctx, first snapshot)
SelectOnFirst ==
    /\ cpc = "done"
    /\ outcome.ok
    /\ held # NoSnapshot
    /\ pc = "idle"
    /\ snapshot' = held
    /\ pc' = "scan"
    /\ UNCHANGED <<ctx, allow_fallback, idx, result, evaluated, sha, ncall, first, on_decision, calls>>
    /\ UNCHANGED nonSelectorVars

\* select_gateway(ctx, second snapshot), the first result kept for comparison
SelectOnSecond ==
    /\ pc = "done"
    /\ ncall = 1
    /\ held # NoSnapshot
    /\ first' = result
    /\ snapshot' = outcome.snapshot
    /\ result' = NoResult
    /\ ncall' = 2
    /\ pc' = "scan"
    /\ idx' = 1
    /\ evaluated' = {}
    /\ calls' = <<>>
    /\ UNCHANGED <<ctx, allow_fallback, sha, on_decision>>
    /\ UNCHANGED nonSelectorVars

NextRecompile ==
    \/ NextCompile
    \/ KeepSnapshot
    \/ SelectOnFirst
    \/ SelectOnSecond
    \/ Next

EvenWeights == [n \in GwNames |-> IntVal(50)]

RecompileRows ==
    {Template(5, TRUE, "USER", "7", NoJson, Weighted(EvenWeights, NoneStr)),
     Template(5, TRUE, "USER", "7", NoJson, Weighted(EvenWeights, "api_user_id")),
     Template(10, TRUE, "ADVANCED", NoneStr, TreeNested, Fixed(NumGateways)),
     Template(10, FALSE, "ADVANCED", NoneStr, LeafUser, Deny),
     Template(7, TRUE, "ADVANCED", NoneStr, LeafRaw, Deny),
     Template(10, TRUE, "USER", "x", NoJson, Fixed(1))}

RecompileTables ==
    UNION {{[i \in 1..n |-> RowOf(ts[i], RuleId(i), 1)] : ts \in [1..n -> RecompileRows]} :
           n \in 0..MaxRules}

RecompileGatewayMaps ==
    {EmptyMap, [n \in {1} |-> GatewayConfig(n, TRUE, FALSE)],
     [n \in GwNames |-> GatewayConfig(n, TRUE, FALSE)],
     [n \in GwNames |-> GatewayConfig(n, TRUE, n = NumGateways)]}

InitRecompile ==
    /\ \E rulesets \in {{}} \cup {{RuleSetDTO(1, 1, "salt", d, TRUE)} : d \in {None, NumGateways}},
          gateways \in RecompileGatewayMaps, rows \in RecompileTables :
          repo = Store(rulesets, gateways, rows)
    /\ arg_ruleset_id = None
    /\ arg_debug = FALSE
    /\ cpc = "ruleset"
    /\ CompileLocals
    /\ snapshot = NoSnapshot
    /\ ctx \in Contexts
    /\ allow_fallback = TRUE
    /\ pc = "idle"
    /\ idx = 1
    /\ result = NoResult
    /\ evaluated = {}
    /\ sha = EmptyMap
    /\ ncall = 1
    /\ first = NoResult
    /\ on_decision = NoneStr
    /\ calls = <<>>
    /\ CallIdle
    /\ CacheIdle

SpecRecompile == InitRecompile /\ [][NextRecompile]_vars

---------------------------------------------------------------------------
(* C19 *)

\* both snapshots have answered
BothDecided == held # NoSnapshot /\ ncall = 2 /\ pc = "done"

\* the rule that decided the second call, when one did
Decider == CHOOSE r \in {snapshot.rules[i] : i \in 1..Len(snapshot.rules)} :
               r.id = result.decision.matched_rule_id

\* the decision was a weighted draw without a sticky value: the action has no
\* sticky_by, or ctx holds nothing under it
DrawnAtRandom ==
    /\ result.decision.route = "WEIGHTED"
    /\ first.decision.route = "WEIGHTED"
    /\ result.decision.matched_rule_id = first.decision.matched_rule_id
    /\ result.decision.reason = first.decision.reason
    /\ \/ Decider.action.sticky_by = NoneStr
       \/ Decider.action.sticky_by \notin DOMAIN ctx

\* C19 as stated: the two snapshots compiled from the same repository give,
\* for the same ctx, the same gateway and the same Decision
C19_SameDecision == BothDecided => result = first

\* C19 amended: the two snapshots give the same gateway and Decision, except
\* that a WEIGHTED rule without a sticky value in ctx draws the gateway anew
\* on each call, rule, route and reason staying the same
C19_SameDecisionUnlessDrawn == BothDecided => (result = first \/ DrawnAtRandom)

\* the two snapshots differ in loaded_at_ms, and a sticky WEIGHTED rule chose
\* the same gateway on both
C19_Witness ==
    /\ BothDecided
    /\ held.loaded_at_ms # snapshot.loaded_at_ms
    /\ result.decision.route = "WEIGHTED"
    /\ Decider.action.sticky_by = "api_user_id"
    /\ ctx = CtxOf(ApiUser)
    /\ result = first

---------------------------------------------------------------------------
(* The store operations: CLI "add", CLI "activate", create_ruleset *)

\* query(...).filter(is_active).first(): one of the active rule sets, as the
\* set of its id, or the empty set for None
FirstActive(store) ==
    IF get_active_ruleset(store) = {} THEN {{}}
    ELSE {{r.id} : r \in get_active_ruleset(store)}

ActiveIds(store) == {r.id : r \in get_active_ruleset(store)}

\* the rule sets with is_active of the rule sets in ids set to b
SetActive(rulesets, ids, b) ==
    {IF r.id \in ids THEN [r EXCEPT !.is_active = b] ELSE r : r \in rulesets}

\* the id the database gives the next rule set: one more than the highest
\* id in the table
NextRuleSetId(store) ==
    IF store.rulesets = {} THEN 1
    ELSE 1 + (CHOOSE m \in {r.id : r \in store.rulesets} :
                 \A r \in store.rulesets : r.id <= m)

\* no store operation is under way
Quiet == fpc \in {"idle", "done"}

\* a new compile_ruleset(repo, ruleset_id=id) call
StartCompile(id) ==
    /\ arg_ruleset_id' = id
    /\ arg_debug' = FALSE
    /\ cpc' = "ruleset"
    /\ rs' = NoRuleSet
    /\ gws' = EmptyMap
    /\ rules_raw' = <<>>
    /\ ri' = 1
    /\ compiled_rules' = <<>>
    /\ outcome' = NoOutcome
    /\ UNCHANGED held

CompileUntouched ==
    UNCHANGED <<arg_ruleset_id, arg_debug, cpc, rs, gws, rules_raw, ri, compiled_rules,
                outcome, held>>

\* what the JSON file of "add" may hold: the gateways to create, the rule
\* set's default gateway and is_active, and its rules
AddFiles ==
    [gateways : SUBSET GwNames, default_gateway : {None} \cup GwNames, is_active : BOOLEAN,
     rules : {<<>>, <<Template(5, TRUE, "USER", "7", NoJson, Fixed(1))>>,
              <<Template(5, TRUE, "USER", "x", NoJson, Fixed(1))>>}]

\* the store after the first commit of "add": the new gateways, the rule set
\* (not active), its rules
Added(store, data) ==
    LET id == NextRuleSetId(store)
        new == {n \in data.gateways : n \notin DOMAIN store.gateways}
    IN  Store(store.rulesets \cup {RuleSetDTO(id, 1, "salt", data.default_gateway, FALSE)},
              [n \in new |-> GatewayConfig(n, TRUE, FALSE)] @@ store.gateways,
              store.rules \o [i \in 1..Len(data.rules) |->
                                 RowOf(data.rules[i], RuleId(Len(store.rules) + i), id)])

\* add_ruleset, is_active false in the file: the rule set is stored inactive
AddInactive ==
    /\ Quiet
    /\ NextRuleSetId(repo) <= MaxRuleSets
    /\ \E data \in AddFiles :
          /\ ~data.is_active
          /\ repo' = Added(repo, data)
          /\ call' = [f |-> "add_ruleset", ruleset_id |-> NextRuleSetId(repo),
                       currently_active |-> {}, active_before |-> ActiveIds(repo)]
    /\ ret' = [f |-> "add_ruleset", r |-> Ok(TRUE)]
    /\ fpc' = "done"
    /\ CompileUntouched
    /\ UNCHANGED clock
    /\ UNCHANGED <<selectorVars, cacheVars>>

\* add_ruleset, is_active true in the file, up to the first commit: the rule
\* set is stored inactive and compile_ruleset is called on it
AddCommit ==
    /\ Quiet
    /\ NextRuleSetId(repo) <= MaxRuleSets
    /\ \E data \in AddFiles, cur \in FirstActive(repo) :
          /\ data.is_active
          /\ repo' = Added(repo, data)
          /\ call' = [f |-> "add_ruleset", ruleset_id |-> NextRuleSetId(repo),
                       currently_active |-> cur, active_before |-> ActiveIds(repo)]
    /\ ret' = NoCall
    /\ fpc' = "validating"
    /\ StartCompile(NextRuleSetId(repo))
    /\ UNCHANGED clock
    /\ UNCHANGED <<selectorVars, cacheVars>>

\* add_ruleset: the user answers no to a confirmation, everything is rolled back
AddCancelled ==
    /\ Quiet
    /\ NextRuleSetId(repo) <= MaxRuleSets
    /\ call' = [f |-> "add_ruleset", ruleset_id |-> None,
                 currently_active |-> {}, active_before |-> ActiveIds(repo)]
    /\ ret' = [f |-> "add_ruleset", r |-> Raise("Abort")]
    /\ fpc' = "done"
    /\ UNCHANGED repo
    /\ CompileUntouched
    /\ UNCHANGED clock
    /\ UNCHANGED <<selectorVars, cacheVars>>

Validated(f) == fpc = "validating" /\ call.f = f /\ cpc = "done"

\* add_ruleset: the validation succeeded; the rule set that was active is
\* deactivated and the new one activated
AddActivate ==
    /\ Validated("add_ruleset")
    /\ outcome.ok
    /\ repo' = [repo EXCEPT !.rulesets =
                    SetActive(SetActive(repo.rulesets, call.currently_active, FALSE),
                              {call.ruleset_id}, TRUE)]
    /\ ret' = [f |-> "add_ruleset", r |-> Ok(TRUE)]
    /\ fpc' = "done"
    /\ UNCHANGED <<call, clock>>
    /\ CompileUntouched
    /\ UNCHANGED <<selectorVars, cacheVars>>

\* add_ruleset: the validation failed; exit code 1, the store stays as the
\* first commit left it
AddRejected ==
    /\ Validated("add_ruleset")
    /\ ~outcome.ok
    /\ ret' = [f |-> "add_ruleset", r |-> Raise("Exit")]
    /\ fpc' = "done"
    /\ UNCHANGED <<call, clock>>
    /\ UNCHANGED repo
    /\ CompileUntouched
    /\ UNCHANGED <<selectorVars, cacheVars>>

\* activate_ruleset(ruleset_id): compile_ruleset is called on the target
ActivateStart ==
    /\ Quiet
    /\ \E id \in 1..MaxRuleSets :
          /\ call' = [f |-> "activate_ruleset", ruleset_id |-> id,
                       currently_active |-> {}, active_before |-> ActiveIds(repo)]
          /\ StartCompile(id)
    /\ ret' = NoCall
    /\ fpc' = "validating"
    /\ UNCHANGED <<repo, clock>>
    /\ UNCHANGED <<selectorVars, cacheVars>>

\* activate_ruleset: the validation failed; exit code 1
ActivateRejected ==
    /\ Validated("activate_ruleset")
    /\ ~outcome.ok
    /\ ret' = [f |-> "activate_ruleset", r |-> Raise("Exit")]
    /\ fpc' = "done"
    /\ UNCHANGED <<call, clock>>
    /\ UNCHANGED repo
    /\ CompileUntouched
    /\ UNCHANGED <<selectorVars, cacheVars>>

\* activate_ruleset: the target is active already, or the user answers no
ActivateNoChange ==
    /\ Validated("activate_ruleset")
    /\ outcome.ok
    /\ ret' = [f |-> "activate_ruleset",
                r |-> IF call.ruleset_id \in ActiveIds(repo) THEN Ok(TRUE) ELSE Raise("Abort")]
    /\ fpc' = "done"
    /\ UNCHANGED <<call, clock>>
    /\ UNCHANGED repo
    /\ CompileUntouched
    /\ UNCHANGED <<selectorVars, cacheVars>>

\* mutant: the target is activated and the active rule set left as it is
ActivateApply_KeepsActive ==
    /\ Validated("activate_ruleset")
    /\ outcome.ok
    /\ call.ruleset_id \notin ActiveIds(repo)
    /\ repo' = [repo EXCEPT !.rulesets = SetActive(repo.rulesets, {call.ruleset_id}, TRUE)]
    /\ ret' = [f |-> "activate_ruleset", r |-> Ok(TRUE)]
    /\ fpc' = "done"
    /\ UNCHANGED <<call, clock>>
    /\ CompileUntouched
    /\ UNCHANGED <<selectorVars, cacheVars>>

\* activate_ruleset: the first active rule set is deactivated, the target
\* activated
ActivateApply ==
    /\ Validated("activate_ruleset")
    /\ outcome.ok
    /\ call.ruleset_id \notin ActiveIds(repo)
    /\ \E cur \in FirstActive(repo) :
          repo' = [repo EXCEPT !.rulesets =
                      SetActive(SetActive(repo.rulesets, cur, FALSE), {call.ruleset_id}, TRUE)]
    /\ ret' = [f |-> "activate_ruleset", r |-> Ok(TRUE)]
    /\ fpc' = "done"
    /\ UNCHANGED <<call, clock>>
    /\ CompileUntouched
    /\ UNCHANGED <<selectorVars, cacheVars>>

\* WritableDatabaseRepo.create_ruleset(name, is_active, ..., default_gateway)
create_ruleset ==
    /\ Quiet
    /\ NextRuleSetId(repo) <= MaxRuleSets
    /\ \E is_active \in BOOLEAN, default_gateway \in {None} \cup GwNames :
          LET others == IF is_active
                        THEN SetActive(repo.rulesets, ActiveIds(repo), FALSE)
                        ELSE repo.rulesets
          IN  repo' = [repo EXCEPT !.rulesets =
                          others \cup {RuleSetDTO(NextRuleSetId(repo), 1, "salt",
                                                  default_gateway, is_active)}]
    /\ call' = [f |-> "create_ruleset", ruleset_id |-> NextRuleSetId(repo),
                 currently_active |-> {}, active_before |-> ActiveIds(repo)]
    /\ ret' = [f |-> "create_ruleset", r |-> Ok(TRUE)]
    /\ fpc' = "done"
    /\ CompileUntouched
    /\ UNCHANGED clock
    /\ UNCHANGED <<selectorVars, cacheVars>>

NextStore ==
    \/ AddInactive
    \/ AddCommit
    \/ AddCancelled
    \/ AddActivate
    \/ AddRejected
    \/ ActivateStart
    \/ ActivateRejected
    \/ ActivateNoChange
    \/ ActivateApply
    \/ create_ruleset
    \/ NextCompile

\* an empty store, with or without gateway 1
InitStore ==
    /\ repo \in {Store({}, g, <<>>) :
                    g \in {EmptyMap, [n \in {1} |-> GatewayConfig(n, TRUE, FALSE)]}}
    /\ arg_ruleset_id = None
    /\ arg_debug = FALSE
    /\ cpc = "idle"
    /\ CompileLocals
    /\ SelectorIdle
    /\ CallIdle
    /\ CacheIdle

SpecStore == InitStore /\ [][NextStore]_vars

---------------------------------------------------------------------------
(* C20: a rule set compile_ruleset rejects is never active *)

\* compile_ruleset(store, ruleset_id=id) returns a snapshot: the rule set is
\* found, there are gateways, every rule compiles, the default gateway is known
Accepted(store, id) ==
    /\ get_ruleset_by_id(store, id) # {}
    /\ get_gateways_map(store) # EmptyMap
    /\ \A i \in 1..Len(store.rules) :
          store.rules[i].rule_set_id = id
              => compile_rule(store.rules[i], get_gateways_map(store), FALSE).ok
    /\ \A r \in get_ruleset_by_id(store, id) :
          r.default_gateway = None \/ r.default_gateway \in DOMAIN get_gateways_map(store)

\* the validation of the operation under way has just failed and the
\* operation has ended
ValidationFailed ==
    /\ fpc = "done"
    /\ call.f \in {"add_ruleset", "activate_ruleset"}
    /\ ~ret.r.ok
    /\ ret.r.error = "Exit"

\* C20: after any sequence of store operations (CLI "add" with is_active
\* true, CLI "activate", create_ruleset) no rule set that compile_ruleset
\* rejects is active, and after a failed validation the rule sets that were
\* active before the operation are the active ones
C20_NoRejectedActive ==
    /\ \A r \in repo.rulesets : r.is_active => Accepted(repo, r.id)
    /\ ValidationFailed => ActiveIds(repo) = call.active_before

\* create_ruleset has made a rule set active that compile_ruleset rejects,
\* in place of an accepted one that was active
C20_Witness ==
    /\ fpc = "done"
    /\ call.f = "create_ruleset"
    /\ call.active_before # {}
    /\ \A id \in call.active_before : Accepted(repo, id)
    /\ \E r \in repo.rulesets :
          r.id = call.ruleset_id /\ r.is_active /\ ~Accepted(repo, r.id)

---------------------------------------------------------------------------
(* C21: every result of select_gateway is whole *)

\* C21: gw is None exactly when Decision.gateway is None; a gateway returned
\* is a value of snapshot.gateways that is enabled and not in maintenance,
\* Decision.gateway is its name, and the reason is "matched" (with the rule's
\* id and a route FIXED or WEIGHTED) or "fallback" (with no rule id and no
\* route); with no gateway the reason is "denied", "no_rule" or
\* "no_available_gw".
C21_ResultConsistent ==
    Returned =>
        /\ (result.gw = NoGateway) <=> (Dec.gateway = None)
        /\ result.gw # NoGateway =>
              /\ \E n \in DOMAIN snapshot.gateways : snapshot.gateways[n] = result.gw
              /\ result.gw.is_enabled
              /\ ~result.gw.in_maintenance
              /\ Dec.gateway = result.gw.name
              /\ \/ /\ Dec.reason = "matched"
                    /\ \E i \in RuleIdx : Rules[i].id = Dec.matched_rule_id
                    /\ Dec.route \in {"FIXED", "WEIGHTED"}
                 \/ /\ Dec.reason = "fallback"
                    /\ Dec.matched_rule_id = None
                    /\ Dec.route = NoneStr
        /\ result.gw = NoGateway => Dec.reason \in {"denied", "no_rule", "no_available_gw"}

\* a WEIGHTED rule returned a gateway while the other gateway of its weights is
\* in maintenance, after an earlier accepting rule produced none
C21_Witness ==
    /\ Returned
    /\ Dec.reason = "matched"
    /\ Dec.route = "WEIGHTED"
    /\ Dec.matched_rule_id = RuleId(2)
    /\ Accepts(1)
    /\ \E n \in DOMAIN snapshot.gateways :
          snapshot.gateways[n].is_enabled /\ snapshot.gateways[n].in_maintenance

---------------------------------------------------------------------------
(* C22: an action that produces no gateway is never reported *)

\* rule i accepts ctx and its action resolves to "fixed_unavailable",
\* "weighted_unavailable" or "unknown_route"
Unresolved(i) == Accepts(i) /\ ~IsDeny(i) /\ ~ProducesGateway(i)

\* the snapshot with the predicate of rule i replaced by one that never matches
NotMatching(snap, i) == [snap EXCEPT !.rules[i].predicate = CONST_FALSE]

\* C22: the Decision returned never carries "fixed_unavailable",
\* "weighted_unavailable" or "unknown_route"; a matching rule whose action
\* resolves to one of them is passed over as if its predicate had rejected
\* ctx, and when no other rule decides the call ends in "fallback" or
\* "no_available_gw".
C22_UnavailableNeverReported ==
    Returned =>
        /\ Dec.reason \notin {"fixed_unavailable", "weighted_unavailable", "unknown_route"}
        /\ \A i \in RuleIdx :
              Unresolved(i) =>
                 /\ \A b \in BucketsOf(snapshot) :
                       select_gateway(ctx, NotMatching(snapshot, i), allow_fallback, b)
                          = select_gateway(ctx, snapshot, allow_fallback, b)
                 /\ \E b \in BucketsOf(snapshot) :
                       result = select_gateway(ctx, NotMatching(snapshot, i), allow_fallback, b)
        /\ ((\E i \in RuleIdx : Unresolved(i)) /\ (\A j \in RuleIdx : ~Decides(j)))
              => Dec.reason \in {"fallback", "no_available_gw"}

\* the only accepting rule has an unknown route, and the call ended without
\* a gateway
C22_Witness ==
    /\ Returned
    /\ \E i \in RuleIdx :
          /\ Unresolved(i)
          /\ Rules[i].action = UnknownRoute
          /\ \A j \in RuleIdx \ {i} : ~Accepts(j)
    /\ Dec.reason = "no_available_gw"

---------------------------------------------------------------------------
(* SpecCallback: select_gateway with and without an on_decision callback *)

\* on_decision: None, a callback that returns, a callback that raises
Callbacks == {NoneStr, "records", "raises"}

InitCallback ==
    /\ \E rules \in RulesOver(MaxRules, {CONST_TRUE, CONST_FALSE}, ScanActions),
          gateways \in GatewayMaps, dflt \in {None} \cup GwNames :
          snapshot = CompiledRuleset(1, 1, "salt", rules, gateways, dflt, 0)
    /\ ctx = CtxOf(ApiUser)
    /\ allow_fallback = TRUE
    /\ on_decision \in Callbacks
    /\ InitCall
    /\ CompileIdle
    /\ CallIdle
    /\ CacheIdle

SpecCallback == InitCallback /\ [][Next]_vars

---------------------------------------------------------------------------
(* C23: the callback is invoked once, with the final Decision *)

\* the call is over: it returned, or the callback raised
Ended == pc \in {"done", "raised"}

\* what the same call returns without a callback, for the buckets the hash can give
WithoutCallback ==
    {select_gateway(ctx, snapshot, allow_fallback, b) : b \in BucketsOf(snapshot)}

\* C23: with an on_decision callback, select_gateway invokes it exactly once
\* per call, on every return path, with the Decision it is about to return and
\* the ctx, and not before the decision is final; what is returned is what the
\* same call returns without a callback.
C23_CallbackOncePerCall ==
    /\ ~Ended => calls = <<>>
    /\ (Ended /\ on_decision = NoneStr) => calls = <<>>
    /\ (Ended /\ on_decision # NoneStr) =>
          /\ Len(calls) = 1
          /\ calls[1].ctx = ctx
          /\ \E r \in WithoutCallback : calls[1].dec = r.decision
          /\ Returned => calls[1].dec = Dec
    /\ Returned => result \in WithoutCallback

\* a call with a callback returned by the fallback after an accepting rule
\* produced no gateway
C23_Witness ==
    /\ Returned
    /\ on_decision = "records"
    /\ Len(calls) = 1
    /\ Dec.reason = "fallback"
    /\ \E i \in RuleIdx : Accepts(i)

---------------------------------------------------------------------------
(* _normalize_weights on a dict as Python holds it: its items in iteration order *)

Item(k, v) == [k |-> k, v |-> v]

Keys(d) == {d[i].k : i \in 1..Len(d)}

\* the dict as a mapping, its order forgotten
AsMap(d) == [k \in Keys(d) |-> d[CHOOSE i \in 1..Len(d) : d[i].k = k].v]

\* sum(d.values())
RECURSIVE SumItems(_)
SumItems(d) == IF d = <<>> THEN 0 ELSE Head(d).v + SumItems(Tail(d))

\* mutant: the items are taken in the order the dict gives them
SortedItems_Unsorted(d) == d

\* line 42: sorted(cleaned.items())
SortedItems(d) ==
    LET names == SortedKeys(Keys(d))
    IN  [i \in 1..Len(d) |-> Item(names[i], AsMap(d)[names[i]])]

\* lines 43-49 from item i on: out, in the order its keys are inserted
RECURSIVE LoopItems(_, _, _, _)
LoopItems(items, total, i, acc) ==
    IF i > Len(items) THEN <<>>
    ELSE IF i = Len(items) THEN <<Item(items[i].k, 100 - acc)>>
    ELSE LET pct == PyRound(items[i].v * 100, total)
         IN  <<Item(items[i].k, pct)>> \o LoopItems(items, total, i + 1, acc + pct)

\* clamped[i] is a plain integer: is it > 0
IsPositive(it) == it.v > 0

\* lines 32-55
_normalize_weights_items(d) ==
    LET clamped == [i \in 1..Len(d) |-> Item(d[i].k, Max0(ParseInt(d[i].v).v))]
        cleaned == SelectSeq(clamped, IsPositive)
        total == SumItems(cleaned)
    IN  IF total = 0 THEN <<>>
        ELSE IF total = 100 THEN cleaned
        ELSE LET items == SortedItems(cleaned)
                 out == LoopItems(items, total, 1, 0)
                 diff == 100 - SumItems(out)
             IN  IF diff # 0 THEN [out EXCEPT ![Len(out)].v = @ + diff] ELSE out

---------------------------------------------------------------------------
(* SpecNormalize: _normalize_weights on every small weights dict *)

WeightNames == 1..MaxWeights

\* weights: negative, zero, and positive ones that sum to 100 or not
WeightInts ==
    {IntVal(0 - 10), IntVal(0), IntVal(1), IntVal(10), IntVal(33), IntVal(50), IntVal(199)}

\* the dicts over the weight names: every order of every key set
WeightDicts ==
    {d \in UNION {[1..n -> [k : WeightNames, v : WeightInts]] : n \in 0..MaxWeights} :
        \A i, j \in 1..Len(d) : i # j => d[i].k # d[j].k}

NormalizeWeights ==
    /\ fpc = "call"
    /\ call.f = "_normalize_weights"
    /\ ret' = [f |-> call.f, r |-> _normalize_weights_items(call.weights)]
    /\ fpc' = "done"
    /\ UNCHANGED <<call, clock>>
    /\ UNCHANGED nonCallVars

InitNormalize ==
    /\ fpc = "call"
    /\ \E d \in WeightDicts : call = [f |-> "_normalize_weights", weights |-> d]
    /\ ret = NoCall
    /\ clock = Midnight
    /\ SelectorIdle
    /\ CompileIdle
    /\ CacheIdle

SpecNormalize == InitNormalize /\ [][NormalizeWeights]_vars

---------------------------------------------------------------------------
(* C24: what _normalize_weights returns *)

Normalized == fpc = "done" /\ ret.f = "_normalize_weights"

\* the keys of the dict whose weight is strictly positive
PositiveKeys(d) == {d[i].k : i \in {j \in 1..Len(d) : d[j].v.v > 0}}

\* the same dict in another iteration order
Reordered(d) == {e \in WeightDicts : AsMap(e) = AsMap(d)}

\* C24: _normalize_weights returns the empty map when no weight is strictly
\* positive; otherwise a map over exactly the keys whose weight is strictly
\* positive, whose values sum to exactly 100; the positive entries are
\* returned unchanged when they already sum to 100; and the result does not
\* depend on the iteration order of the input.
C24_NormalizedWeights ==
    Normalized =>
        LET d == call.weights
            pos == PositiveKeys(d)
            out == AsMap(ret.r)
        IN  /\ pos = {} => ret.r = <<>>
            /\ Keys(ret.r) = pos
            /\ Len(ret.r) = Cardinality(pos)
            /\ pos # {} => SumItems(ret.r) = 100
            /\ SumOver([k \in pos |-> AsMap(d)[k].v], pos) = 100
                  => \A k \in pos : out[k] = AsMap(d)[k].v
            /\ \A e \in Reordered(d) : AsMap(_normalize_weights_items(e)) = out
            /\ out = _normalize_weights(AsMap(d))

\* three weights of 33, given with the last name first: rescaled to 33, 33, 34
\* with the 34 on the last name
C24_Witness ==
    /\ Normalized
    /\ Len(call.weights) = 3
    /\ call.weights[1].k = 3
    /\ \A i \in 1..3 : call.weights[i].v = IntVal(33)
    /\ AsMap(ret.r) = (1 :> 33) @@ (2 :> 33) @@ (3 :> 34)

---------------------------------------------------------------------------
(* SpecPick: _pick_weighted on one weights map, for the keys that hash to
   bucket 0, 1, ..., 99 in turn *)

PickWeights == {IntVal(0), IntVal(1), IntVal(20), IntVal(50), IntVal(80), IntVal(199)}

\* the gateways picked so far, by bucket (None where _pick_weighted returned None)
NoPicks == [b \in {} |-> None]

PickWeighted ==
    /\ fpc = "call"
    /\ call.f = "_pick_weighted"
    /\ call.bucket \in Buckets
    /\ LET gw == _pick_weighted(call.weights, call.gateways, call.bucket)
       IN  ret' = [f |-> call.f, picks |-> (call.bucket :> gw.name) @@ ret.picks]
    /\ IF call.bucket + 1 \in Buckets
       THEN call' = [call EXCEPT !.bucket = @ + 1] /\ UNCHANGED fpc
       ELSE fpc' = "done" /\ UNCHANGED call
    /\ UNCHANGED clock
    /\ UNCHANGED nonCallVars

InitPick ==
    /\ fpc = "call"
    /\ \E w \in MapsInto(PickWeights), g \in GatewayMaps :
          call = [f |-> "_pick_weighted", weights |-> w, gateways |-> g, bucket |-> 0]
    /\ ret = [f |-> "_pick_weighted", picks |-> NoPicks]
    /\ clock = Midnight
    /\ SelectorIdle
    /\ CompileIdle
    /\ CacheIdle

SpecPick == InitPick /\ [][PickWeighted]_vars

---------------------------------------------------------------------------
(* C25: the bucket walk of _pick_weighted *)

Picking == call.f = "_pick_weighted"

\* the normalized weights of the gateways of the call that are available
Norm == _normalize_weights(Candidates(call.weights, call.gateways))

\* the sum of the percentages of the names up to and including n
Cumulative(n) == SumOver(Norm, {m \in DOMAIN Norm : m <= n})

\* both gateways are available and carry the weights wa (name 1) and wb (name 2)
TwoAvailable(wa, wb) ==
    /\ DOMAIN call.weights = {1, 2}
    /\ call.weights[1] = IntVal(wa)
    /\ call.weights[2] = IntVal(wb)
    /\ \A n \in {1, 2} :
          /\ n \in DOMAIN call.gateways
          /\ call.gateways[n].is_enabled
          /\ ~call.gateways[n].in_maintenance

\* C25: _pick_weighted walks the normalized weights in ascending name order,
\* accumulating the percentages, and returns the first gateway whose
\* cumulative percentage is strictly greater than the bucket; with two
\* available gateways of weights 50 and 50, bucket 49 selects the first name
\* and bucket 50 the second.
C25_FirstCumulativeAboveBucket ==
    Picking =>
        /\ \A b \in DOMAIN ret.picks :
              IF Norm = EmptyMap THEN ret.picks[b] = None
              ELSE /\ ret.picks[b] \in DOMAIN Norm
                   /\ Cumulative(ret.picks[b]) > b
                   /\ \A m \in DOMAIN Norm : m < ret.picks[b] => Cumulative(m) <= b
        /\ TwoAvailable(50, 50) =>
              /\ 49 \in DOMAIN ret.picks => ret.picks[49] = 1
              /\ 50 \in DOMAIN ret.picks => ret.picks[50] = 2

\* weights 50 and 50 on two available gateways: buckets 49 and 50 were tried
C25_Witness ==
    /\ Picking
    /\ TwoAvailable(50, 50)
    /\ {49, 50} \subseteq DOMAIN ret.picks
    /\ ret.picks[49] = 1
    /\ ret.picks[50] = 2

---------------------------------------------------------------------------
(* C26: weights 80 and 20 *)

\* C26 as claimed: whatever the names of the two gateways, bucket 79 selects
\* the gateway whose weight is 80 and bucket 80 the gateway whose weight is 20
\* (refuted: it depends on which name sorts first)
C26_EightyTwenty ==
    /\ (Picking /\ TwoAvailable(80, 20)) =>
          /\ 79 \in DOMAIN ret.picks => ret.picks[79] = 1
          /\ 80 \in DOMAIN ret.picks => ret.picks[80] = 2
    /\ (Picking /\ TwoAvailable(20, 80)) =>
          /\ 79 \in DOMAIN ret.picks => ret.picks[79] = 2
          /\ 80 \in DOMAIN ret.picks => ret.picks[80] = 1

\* C26 as amended: when the name of the gateway whose weight is 80 sorts
\* first, bucket 79 selects it and bucket 80 selects the gateway whose weight
\* is 20; when the name of the gateway whose weight is 20 sorts first, the
\* buckets below 20 select it and the buckets from 20 on, 79 and 80 included,
\* select the gateway whose weight is 80
C26_EightyTwentyByName ==
    /\ (Picking /\ TwoAvailable(80, 20)) =>
          /\ 79 \in DOMAIN ret.picks => ret.picks[79] = 1
          /\ 80 \in DOMAIN ret.picks => ret.picks[80] = 2
    /\ (Picking /\ TwoAvailable(20, 80)) =>
          \A b \in DOMAIN ret.picks : ret.picks[b] = (IF b < 20 THEN 1 ELSE 2)

\* the gateway whose weight is 20 has the first name, and bucket 80 selected
\* the gateway whose weight is 80
C26_Witness ==
    /\ Picking
    /\ TwoAvailable(20, 80)
    /\ {79, 80} \subseteq DOMAIN ret.picks
    /\ ret.picks[79] = 2
    /\ ret.picks[80] = 2

---------------------------------------------------------------------------
(* C27: every positive weight gets its share of the buckets *)

\* all the buckets 0..99 have been tried
AllPicked == Picking /\ fpc = "done"

\* the buckets that selected gateway n
BucketsOfGateway(n) == {b \in DOMAIN ret.picks : ret.picks[b] = n}

\* the gateways of the call that are available and whose weight is > 0
PositiveAvailable ==
    {n \in DOMAIN Candidates(call.weights, call.gateways) : call.weights[n].v > 0}

\* C27: every available gateway whose weight is strictly positive is selected
\* for at least one bucket in 0..99, and the number of buckets that select a
\* gateway equals its normalized percentage, which is at least 1.
C27_EveryPositiveWeightSelected ==
    AllPicked =>
        \A n \in PositiveAvailable :
            /\ BucketsOfGateway(n) # {}
            /\ n \in DOMAIN Norm
            /\ Cardinality(BucketsOfGateway(n)) = Norm[n]
            /\ Norm[n] >= 1

\* weights 199 and 1 on two available gateways: all 100 buckets select the
\* first, the second has a normalized percentage of 0
C27_Witness ==
    /\ AllPicked
    /\ TwoAvailable(199, 1)
    /\ Norm[2] = 0
    /\ BucketsOfGateway(2) = {}
    /\ BucketsOfGateway(1) = Buckets

---------------------------------------------------------------------------
(* SpecOps: the store operations with "delete" and with commits that fail,
   from a store that holds at most one active rule set *)

\* the store without rule set id and without its rules
Deleted(store, id) ==
    Store({r \in store.rulesets : r.id # id}, store.gateways,
          SelectSeq(store.rules, LAMBDA row : row.rule_set_id # id))

\* delete_ruleset(ruleset_id): the rule set is there and not active; its rules
\* and the rule set are deleted in one commit
DeleteApply ==
    /\ Quiet
    /\ \E id \in 1..MaxRuleSets :
          /\ get_ruleset_by_id(repo, id) # {}
          /\ id \notin ActiveIds(repo)
          /\ repo' = Deleted(repo, id)
          /\ call' = [f |-> "delete_ruleset", ruleset_id |-> id,
                      currently_active |-> {}, active_before |-> ActiveIds(repo)]
    /\ ret' = [f |-> "delete_ruleset", r |-> Ok(TRUE)]
    /\ fpc' = "done"
    /\ CompileUntouched
    /\ UNCHANGED clock
    /\ UNCHANGED <<selectorVars, cacheVars>>

\* delete_ruleset: the rule set is not found or is active (exit code 1), the
\* user answers no, or the commit fails and is rolled back
DeleteNoChange ==
    /\ Quiet
    /\ \E id \in 1..MaxRuleSets :
          /\ call' = [f |-> "delete_ruleset", ruleset_id |-> id,
                      currently_active |-> {}, active_before |-> ActiveIds(repo)]
          /\ \E e \in IF get_ruleset_by_id(repo, id) = {} \/ id \in ActiveIds(repo)
                      THEN {"Exit"} ELSE {"Abort", "Exit"} :
                ret' = [f |-> "delete_ruleset", r |-> Raise(e)]
    /\ fpc' = "done"
    /\ UNCHANGED repo
    /\ CompileUntouched
    /\ UNCHANGED clock
    /\ UNCHANGED <<selectorVars, cacheVars>>

\* add_ruleset or activate_ruleset: the validation succeeded and the commit
\* that changes is_active fails; it is rolled back, exit code 1
CommitFailed ==
    /\ fpc = "validating"
    /\ cpc = "done"
    /\ outcome.ok
    /\ call.f = "activate_ruleset" => call.ruleset_id \notin ActiveIds(repo)
    /\ ret' = [f |-> call.f, r |-> Raise("Exit")]
    /\ fpc' = "done"
    /\ UNCHANGED <<call, clock>>
    /\ UNCHANGED repo
    /\ CompileUntouched
    /\ UNCHANGED <<selectorVars, cacheVars>>

NextOps ==
    \/ NextStore
    \/ DeleteApply
    \/ DeleteNoChange
    \/ CommitFailed

\* no rule set, or one rule set, active or not, with or without gateway 1
InitOps ==
    /\ \E rulesets \in {{}} \cup {{RuleSetDTO(1, 1, "salt", None, a)} : a \in BOOLEAN},
          g \in {EmptyMap, [n \in {1} |-> GatewayConfig(n, TRUE, FALSE)]} :
          repo = Store(rulesets, g, <<>>)
    /\ arg_ruleset_id = None
    /\ arg_debug = FALSE
    /\ cpc = "idle"
    /\ CompileLocals
    /\ SelectorIdle
    /\ CallIdle
    /\ CacheIdle

SpecOps == InitOps /\ [][NextOps]_vars

---------------------------------------------------------------------------
(* C28: at most one rule set is active *)

Finished(f) == fpc = "done" /\ call.f = f

\* C28: from a store with at most one active rule set, after any sequence of
\* CLI "add", "activate" and "delete" commands and create_ruleset calls, run
\* to completion, aborted or failed, at most one rule set is active; after
\* "activate" of an inactive valid rule set the target is the active one and
\* the rule set that was active is not; "delete" never removes the active
\* rule set.
C28_AtMostOneActive ==
    /\ Cardinality(get_active_ruleset(repo)) <= 1
    /\ (Finished("activate_ruleset") /\ ret.r.ok) => ActiveIds(repo) = {call.ruleset_id}
    /\ (Finished("activate_ruleset") /\ ~ret.r.ok) => ActiveIds(repo) = call.active_before
    /\ Finished("delete_ruleset") =>
          /\ ActiveIds(repo) = call.active_before
          /\ \A id \in call.active_before : get_ruleset_by_id(repo, id) # {}
          /\ ret.r.ok => get_ruleset_by_id(repo, call.ruleset_id) = {}

\* "activate" of an inactive valid rule set has replaced the rule set that was
\* active
C28_Witness ==
    /\ Finished("activate_ruleset")
    /\ ret.r.ok
    /\ call.active_before # {}
    /\ call.ruleset_id \notin call.active_before
    /\ ActiveIds(repo) = {call.ruleset_id}
    /\ \A id \in call.active_before : get_ruleset_by_id(repo, id) # {}

---------------------------------------------------------------------------
(* DatabaseRepoWithCache: a read is two gets on the cache, or one get, a
   database read and a set *)

\* what the cache stores: the JSON text of a value, and the value parsed
\* from it
dump_json(v) == [json |-> v]
validate_json(s) == s.json

\* what DatabaseRepo returns for the key: the active rule set (a set, empty
\* for None), the rules of the rule set, the gateways map
DbRead(store, key) ==
    CASE key.name = "active_ruleset" -> get_active_ruleset(store)
      [] key.name = "rules_for_ruleset" -> get_rules_for_ruleset(store, key.id)
      [] OTHER -> get_gateways_map(store)

\* lines 53, 61, 69: what is returned when the second get gives None
WhenLost(key) ==
    CASE key.name = "active_ruleset" -> {}
      [] key.name = "rules_for_ruleset" -> <<>>
      [] OTHER -> EmptyMap

\* a read of DatabaseRepoWithCache begins
ReadStart ==
    /\ Quiet
    /\ \E key \in CacheKeys : call' = [f |-> key.name, key |-> key]
    /\ ret' = NoCall
    /\ fpc' = "get"
    /\ UNCHANGED clock
    /\ UNCHANGED cacheVars
    /\ UNCHANGED <<selectorVars, compileVars>>

Reading == fpc \in {"get", "hit"} /\ call.key \in CacheKeys

\* lines 47-51, 56-59, 64-67: the first get gives None (nothing stored, or
\* Redis failed); the database is read and the value stored, unless the set
\* fails or the active rule set is None
ReadMiss ==
    /\ fpc = "get"
    /\ Reading
    /\ LET v == DbRead(repo, call.key) IN
       /\ ret' = [f |-> call.f, v |-> v]
       /\ \E stored \in IF call.key.name = "active_ruleset" /\ v = {}
                        THEN {FALSE} ELSE BOOLEAN :
             IF stored
             THEN /\ cache' = (call.key :> dump_json(v)) @@ cache
                  /\ cached' = [cached EXCEPT ![call.key] = @ \cup {v}]
             ELSE UNCHANGED cacheVars
    /\ fpc' = "done"
    /\ UNCHANGED <<call, clock>>
    /\ UNCHANGED <<selectorVars, compileVars>>

\* lines 47, 56, 64: the first get gives the stored string
ReadHit ==
    /\ fpc = "get"
    /\ Reading
    /\ call.key \in DOMAIN cache
    /\ fpc' = "hit"
    /\ UNCHANGED <<call, ret, clock>>
    /\ UNCHANGED cacheVars
    /\ UNCHANGED <<selectorVars, compileVars>>

\* lines 52-53, 60-61, 68-69: the second get gives the stored string
ReadCached ==
    /\ fpc = "hit"
    /\ Reading
    /\ call.key \in DOMAIN cache
    /\ ret' = [f |-> call.f, v |-> validate_json(cache[call.key])]
    /\ fpc' = "done"
    /\ UNCHANGED <<call, clock>>
    /\ UNCHANGED cacheVars
    /\ UNCHANGED <<selectorVars, compileVars>>

\* lines 52-53, 60-61, 68-69: the second get gives None (the key expired
\* since the first get, or Redis failed)
ReadLost ==
    /\ fpc = "hit"
    /\ Reading
    /\ ret' = [f |-> call.f, v |-> WhenLost(call.key)]
    /\ fpc' = "done"
    /\ UNCHANGED <<call, clock>>
    /\ UNCHANGED cacheVars
    /\ UNCHANGED <<selectorVars, compileVars>>

\* the TTL of a key runs out
Expire ==
    /\ \E key \in DOMAIN cache : cache' = [k \in DOMAIN cache \ {key} |-> cache[k]]
    /\ UNCHANGED cached
    /\ UNCHANGED <<selectorVars, compileVars, callVars>>

NextCache ==
    \/ ReadStart
    \/ ReadMiss
    \/ ReadHit
    \/ ReadCached
    \/ ReadLost
    \/ Expire
    \/ create_ruleset

\* a store with gateway 1 and rule set 1, active or not, with one rule
InitCache ==
    /\ \E a \in BOOLEAN :
          repo = Store({RuleSetDTO(1, 1, "salt", None, a)},
                       [n \in {1} |-> GatewayConfig(n, TRUE, FALSE)],
                       <<RowOf(Template(5, TRUE, "USER", "7", NoJson, Fixed(1)), RuleId(1), 1)>>)
    /\ arg_ruleset_id = None
    /\ arg_debug = FALSE
    /\ cpc = "idle"
    /\ CompileLocals
    /\ SelectorIdle
    /\ CallIdle
    /\ CacheIdle

SpecCache == InitCache /\ [][NextCache]_vars

---------------------------------------------------------------------------
(* C29: a cached read returns the database value or an earlier cached one *)

ReadDone == fpc = "done" /\ "key" \in DOMAIN call

\* C29: under any interleaving of a read with cache expiry or cache failure,
\* the read returns the value now in the database or a value cached earlier
\* for the same key: never an empty list while the database holds rules for
\* the rule set, never an empty map while gateways exist, never None while an
\* active rule set exists.
C29_DatabaseOrCached ==
    ReadDone =>
        /\ ret.v = DbRead(repo, call.key) \/ ret.v \in cached[call.key]
        /\ DbRead(repo, call.key) # WhenLost(call.key) => ret.v # WhenLost(call.key)

\* get_rules_for_ruleset(1) returned [] while the database holds a rule of
\* rule set 1: the key was there at the first get and gone at the second
C29_Witness ==
    /\ ReadDone
    /\ call.key = CacheKey("rules_for_ruleset", 1)
    /\ ret.v = <<>>
    /\ get_rules_for_ruleset(repo, 1) # <<>>
    /\ cached[call.key] # {}
    /\ call.key \notin DOMAIN cache

---------------------------------------------------------------------------
(* C30: select_gateway leaves its inputs as they were *)

\* C30: no step of select_gateway, in a first call or in a repeated call
\* against the same snapshot, changes the snapshot (the rules, each rule's
\* action with its weights, the gateways and their flags, default_gateway) or
\* the ctx.
C30_InputsUnchanged == [][snapshot' = snapshot /\ ctx' = ctx]_vars

\* a second call has matched a WEIGHTED rule whose weights differ from the
\* normalized weights of its available gateways, and the rule still holds
\* the weights it was compiled with
C30_Witness ==
    /\ pc = "done"
    /\ ncall = 2
    /\ first.decision.reason = "matched"
    /\ result.decision.reason = "matched"
    /\ LET action == snapshot.rules[1].action
           norm == _normalize_weights(Candidates(action.weights, snapshot.gateways))
       IN  /\ action.route = "WEIGHTED"
           /\ action.weights # [k \in DOMAIN norm |-> IntVal(norm[k])]

====
